---------------------------- MODULE Spec2Model ----------------------------
(***************************************************************************)
(* Provider selection, rate-limit tracking and fallback orchestration of   *)
(* the universal scraper (scraper module: scrape / scrapeBatch) and the    *)
(* crawler (crawler module: crawl / crawlBatch).                           *)
(*                                                                         *)
(* Each module owns one `state` record per provider.  A request runs       *)
(* synchronously from its entry point up to the first adapter call         *)
(* (await); when the adapter's promise settles the continuation runs       *)
(* synchronously up to the next adapter call or to the return / throw.     *)
(* Those synchronous stretches are the atomic actions of the model.        *)
(***************************************************************************)
EXTENDS Naturals, Integers, Sequences, FiniteSets, TLC

(***************************************************************************)
(* Bounds of the model                                                     *)
(***************************************************************************)
MaxRequests == 2      \* requests started in one behaviour
MaxTicks == 2         \* the clock advances at most this many half-cooldowns

(***************************************************************************)
(* Program constants                                                       *)
(***************************************************************************)
RATE_LIMIT_COOLDOWN_MS == 60 * 1000
TickMs == RATE_LIMIT_COOLDOWN_MS \div 2

None == -1            \* undefined (resetAt, lastSuccess)
NoProvider == "none"  \* null / undefined provider

Providers == {"exa", "firecrawl", "cheerio"}
Modules == {"scraper", "crawler"}
Ops == {"scrape", "scrapeBatch", "crawl", "crawlBatch"}
Slots == 1..MaxRequests

moduleOf(op) == IF op \in {"scrape", "scrapeBatch"} THEN "scraper" ELSE "crawler"
isBatch(op) == op \in {"scrapeBatch", "crawlBatch"}

VARIABLES
  now,     \* wall clock in ms (Date.now())
  env,     \* which API keys are set: [{"exa","firecrawl"} -> BOOLEAN]
  state,   \* [Modules -> [Providers -> ProviderState]]
  req,     \* [Slots -> request record]
  started, \* number of requests started so far
  content, \* an adapter call seen from its response: options, response, result
  walk,    \* a crawl of the cheerio adapter in progress: visited set and pages
  batch    \* a batch operation in progress: URLs, per-URL outcomes, result

vars == <<now, env, state, req, started, content, walk, batch>>

\* no adapter response is being normalized, no cheerio crawl is running, no
\* batch operation is running
NoContent == [pc |-> "none"]
NoWalk == [pc |-> "none"]
NoBatch == [pc |-> "none"]

(***************************************************************************)
(* Rate limit state management                                             *)
(***************************************************************************)
createInitialState ==
  [available |-> FALSE, isLimited |-> FALSE, resetAt |-> None,
   errors |-> 0, lastSuccess |-> None]

createRateLimitState == [p \in Providers |-> createInitialState]

setAvailable(s, p, a) == [s EXCEPT ![p].available = a]

\* slip: a success leaves the error count as it was
recordSuccessKeepsErrors(s, p, t) ==
  [s EXCEPT ![p].lastSuccess = t, ![p].isLimited = FALSE]

recordSuccess(s, p, t) ==
  [s EXCEPT ![p].lastSuccess = t, ![p].isLimited = FALSE, ![p].errors = 0]

\* slip: the flag is set without a reset time
recordRateLimitNoReset(s, p, t) ==
  [s EXCEPT ![p].isLimited = TRUE, ![p].errors = @ + 1]

recordRateLimit(s, p, t) ==
  [s EXCEPT ![p].isLimited = TRUE,
            ![p].errors = @ + 1,
            ![p].resetAt = t + RATE_LIMIT_COOLDOWN_MS]

\* slip: a plain error also sets the rate-limit flag
recordErrorLimiting(s, p) == [s EXCEPT ![p].errors = @ + 1, ![p].isLimited = TRUE]

\* slip: a plain error also forgets the last success
recordErrorForgetsSuccess(s, p) == [s EXCEPT ![p].errors = @ + 1, ![p].lastSuccess = None]

recordError(s, p) == [s EXCEPT ![p].errors = @ + 1]

\* slip: the read reports the flag as it was before an expired limit is cleared
isRateLimitedReportsStale(s, p, t) == s[p].isLimited

\* isRateLimited: the value it returns ...
isRateLimited(s, p, t) ==
  IF ~s[p].isLimited THEN FALSE
  ELSE IF s[p].resetAt # None /\ t >= s[p].resetAt THEN FALSE
  ELSE TRUE

\* slip: the read clears the flag of an expired limit but keeps its reset time
isRateLimitedStateKeepsReset(s, p, t) ==
  IF s[p].isLimited /\ s[p].resetAt # None /\ t >= s[p].resetAt
  THEN [s EXCEPT ![p].isLimited = FALSE]
  ELSE s

\* ... and the state it leaves (an expired limit is cleared by the read)
isRateLimitedState(s, p, t) ==
  IF s[p].isLimited /\ s[p].resetAt # None /\ t >= s[p].resetAt
  THEN [s EXCEPT ![p].isLimited = FALSE, ![p].resetAt = None]
  ELSE s

(***************************************************************************)
(* Adapters: availability                                                  *)
(***************************************************************************)
adapterAvailable(e, p) == IF p = "cheerio" THEN TRUE ELSE e[p]

initProviders(e) ==
  setAvailable(
    setAvailable(
      setAvailable(createRateLimitState, "exa", adapterAvailable(e, "exa")),
      "firecrawl", adapterAvailable(e, "firecrawl")),
    "cheerio", adapterAvailable(e, "cheerio"))

\* adapter.available() && !isRateLimited(p): value and state left
usableNow(s, e, p, t) == adapterAvailable(e, p) /\ ~isRateLimited(s, p, t)
\* slip: finding a provider rate-limited counts as an error of that provider
usableNowStateCountsError(s, e, p, t) ==
  IF ~adapterAvailable(e, p) THEN s
  ELSE IF isRateLimited(s, p, t) THEN [s EXCEPT ![p].errors = @ + 1]
  ELSE isRateLimitedState(s, p, t)

usableNowState(s, e, p, t) ==
  IF adapterAvailable(e, p) THEN isRateLimitedState(s, p, t) ELSE s

ProviderOrder == <<"exa", "firecrawl", "cheerio">>

getAvailableProvidersInternal(s, e, t) ==
  SelectSeq(ProviderOrder, LAMBDA p : usableNow(s, e, p, t))

getAvailableProvidersInternalState(s, e, t) ==
  usableNowState(usableNowState(usableNowState(s, e, "exa", t),
                                e, "firecrawl", t), e, "cheerio", t)

includes(seq, x) == \E i \in 1..Len(seq) : seq[i] = x

(***************************************************************************)
(* Selection policy                                                        *)
(***************************************************************************)
\* slip: the remote providers come first
priorityOrderRemoteFirst == <<"exa", "firecrawl", "cheerio">>

\* slip: the local provider is missing from the priority order
priorityOrderWithoutCheerio == <<"exa", "firecrawl">>

priorityOrder == <<"cheerio", "exa", "firecrawl">>

\* comparator of the tie-break sort: TRUE when a sorts strictly before b
sortsBefore(s, a, b) ==
  IF s[a].lastSuccess # None /\ s[b].lastSuccess = None THEN TRUE
  ELSE IF s[a].lastSuccess = None /\ s[b].lastSuccess # None THEN FALSE
  ELSE s[a].errors < s[b].errors

\* sorted[0] || null of the stable sort
sortedFirst(s, available) ==
  IF Len(available) = 0 THEN NoProvider
  ELSE LET mins == {i \in 1..Len(available) :
                      \A j \in 1..Len(available) :
                         ~sortsBefore(s, available[j], available[i])}
           first == CHOOSE i \in mins : \A j \in mins : i <= j
       IN available[first]

firstInPriority(available) ==
  LET hits == {i \in 1..Len(priorityOrder) : includes(available, priorityOrder[i])}
  IN IF hits = {} THEN NoProvider
     ELSE priorityOrder[CHOOSE i \in hits : \A j \in hits : i <= j]

\* slip: the html rule does not look at the preference
selectProviderHtmlFirst(s, available, prefer, fallback, html) ==
  IF Len(available) = 0 THEN NoProvider
  ELSE IF html /\ includes(available, "firecrawl") THEN "firecrawl"
  ELSE IF prefer # NoProvider /\ includes(available, prefer) THEN prefer
  ELSE IF prefer # NoProvider /\ ~fallback THEN NoProvider
  ELSE IF firstInPriority(available) # NoProvider
       THEN firstInPriority(available)
  ELSE sortedFirst(s, available)

\* slip: no `if (prefer && !fallback) return null`
selectProviderSubstitutes(s, available, prefer, fallback, html) ==
  IF Len(available) = 0 THEN NoProvider
  ELSE IF html /\ prefer = NoProvider /\ includes(available, "firecrawl")
       THEN "firecrawl"
  ELSE IF prefer # NoProvider /\ includes(available, prefer) THEN prefer
  ELSE IF firstInPriority(available) # NoProvider
       THEN firstInPriority(available)
  ELSE sortedFirst(s, available)

\* selectProvider, given the list getAvailableProvidersInternal returned
selectProvider(s, available, prefer, fallback, html) ==
  IF Len(available) = 0 THEN NoProvider
  ELSE IF html /\ prefer = NoProvider /\ includes(available, "firecrawl")
       THEN "firecrawl"
  ELSE IF prefer # NoProvider /\ includes(available, prefer) THEN prefer
  ELSE IF prefer # NoProvider /\ ~fallback THEN NoProvider
  ELSE IF firstInPriority(available) # NoProvider
       THEN firstInPriority(available)
  ELSE sortedFirst(s, available)

(***************************************************************************)
(* Adapters: how a call can settle                                         *)
(***************************************************************************)
\* "ok": the promise resolves; "rate": it rejects with isRateLimit = true;
\* "err": it rejects with any other error.
exaOutcomes(op) == {"ok", "rate", "err"}
firecrawlOutcomes(op) == IF isBatch(op) THEN {"ok"} ELSE {"ok", "rate", "err"}
\* slip: the cheerio adapter flags its HTTP 429 errors as rate limits
cheerioOutcomesRateLimited(op) == IF isBatch(op) THEN {"ok"} ELSE {"ok", "rate", "err"}

cheerioOutcomes(op) == IF isBatch(op) THEN {"ok"} ELSE {"ok", "err"}

adapterOutcomes(e, op, p) ==
  IF ~adapterAvailable(e, p) THEN {"err"}        \* "... not available: key not set"
  ELSE IF p = "exa" THEN exaOutcomes(op)
  ELSE IF p = "firecrawl" THEN firecrawlOutcomes(op)
  ELSE cheerioOutcomes(op)

\* provider field the adapter's normaliser stamps on the page it returns
normalizedProvider(p) == p

\* firecrawlAdapter.crawl hands the links of the page to cheerioAdapter.crawlBatch
firecrawlDelegates(op, p, maxSubpages, hasLinks) ==
  moduleOf(op) = "crawler" /\ p = "firecrawl" /\ maxSubpages > 0 /\ hasLinks

\* providers stamped on the subpages of a returned page
subpageProviders(op, p, maxSubpages, hasLinks, subOk) ==
  IF moduleOf(op) = "crawler" /\ maxSubpages > 0 /\ hasLinks /\ subOk
  THEN IF p = "exa" THEN {normalizedProvider("exa")}
       ELSE {normalizedProvider("cheerio")}
  ELSE {}

(***************************************************************************)
(* Fallback orchestrator                                                   *)
(***************************************************************************)
\* slip: cheerio is tried before the other remote provider
alternativesCheerioFirst(provider) ==
  IF provider = "exa" THEN <<"cheerio", "firecrawl">>
  ELSE IF provider = "firecrawl" THEN <<"cheerio", "exa">>
  ELSE <<"exa", "firecrawl">>

alternatives(provider) ==
  IF provider = "exa" THEN <<"firecrawl", "cheerio">>
  ELSE IF provider = "firecrawl" THEN <<"exa", "cheerio">>
  ELSE <<"exa", "firecrawl">>

\* slip: the loop checks `available()` only
nextAlternativeIgnoresLimit(s, e, alts, i, t) ==
  LET ok == {j \in i..Len(alts) : adapterAvailable(e, alts[j])}
  IN IF ok = {} THEN 0 ELSE CHOOSE j \in ok : \A k \in ok : j <= k

\* the for loop over the alternatives from position i on: index of the first
\* alternative that passes `available() && !isRateLimited(alt)`, 0 if none
RECURSIVE nextAlternative(_, _, _, _, _)
nextAlternative(s, e, alts, i, t) ==
  IF i > Len(alts) THEN 0
  ELSE IF usableNow(s, e, alts[i], t) THEN i
  ELSE nextAlternative(s, e, alts, i + 1, t)

\* the state those checks leave
RECURSIVE nextAlternativeState(_, _, _, _, _)
nextAlternativeState(s, e, alts, i, t) ==
  IF i > Len(alts) THEN s
  ELSE IF usableNow(s, e, alts[i], t) THEN usableNowState(s, e, alts[i], t)
  ELSE nextAlternativeState(usableNowState(s, e, alts[i], t), e, alts, i + 1, t)

\* `options.fallback !== false`: the alternatives are walked after a rate limit
\* slip: the flag is not consulted
fallbackAlways(fallback) == TRUE

fallbackEnabled(fallback) == fallback

\* the error thrown once the alternatives are exhausted (`throw error`)
\* slip: the error of the last alternate is thrown
exhaustedErrorLast(error, fallbackError) == fallbackError

exhaustedError(error, fallbackError) == error

\* the provider tried although selectProvider returned null
tryProvider(e, prefer) ==
  IF prefer # NoProvider THEN prefer
  ELSE IF adapterAvailable(e, "cheerio") THEN "cheerio"
  ELSE IF adapterAvailable(e, "exa") THEN "exa"
  ELSE "firecrawl"

NoError == [tag |-> "none", from |-> NoProvider]
RateLimitError(p) == [tag |-> "RateLimit", from |-> p]
PlainError(p) == [tag |-> "Error", from |-> p]
NoProvidersError == [tag |-> "NoProviders", from |-> NoProvider]
ProviderUnavailableError == [tag |-> "ProviderUnavailable", from |-> NoProvider]

errorOf(kind, p) == IF kind = "rate" THEN RateLimitError(p) ELSE PlainError(p)

NoOutcome == [status |-> "none", provider |-> NoProvider, subs |-> {}, error |-> NoError]
Returned(p, subs) == [status |-> "ok", provider |-> p, subs |-> subs, error |-> NoError]
Thrown(err) == [status |-> "throw", provider |-> NoProvider, subs |-> {}, error |-> err]

IdleRequest ==
  [pc |-> "idle", op |-> "scrape", prefer |-> NoProvider, fallback |-> TRUE,
   maxSubpages |-> 0,
   provider |-> NoProvider,   \* the provider the orchestrator was entered with
   cur |-> NoProvider,        \* the adapter whose call is awaited
   altIdx |-> 0,              \* 0: the first provider; i: alternatives[i]
   recorded |-> TRUE,         \* FALSE: batch call made outside the try block
   calls |-> <<>>,            \* adapters the orchestrator has invoked, in order
   settled |-> <<>>,          \* how those calls settled: "ok", "rate", "err"
   delegated |-> FALSE,       \* the firecrawl adapter called the cheerio adapter
   error |-> NoError,         \* the error caught from the first provider
   outcome |-> NoOutcome]

Init ==
  /\ now = 0
  /\ env \in [{"exa", "firecrawl"} -> BOOLEAN]
  /\ state = [m \in Modules |-> initProviders(env)]
  /\ req = [r \in Slots |-> IdleRequest]
  /\ started = 0
  /\ content = NoContent
  /\ walk = NoWalk
  /\ batch = NoBatch

(***************************************************************************)
(* scrape / crawl / scrapeBatch / crawlBatch: entry up to the first await  *)
(***************************************************************************)
\* the options the rest of the request reads (html only steers the selection)
Entered(op, prefer, fallback, maxSubpages) ==
  [IdleRequest EXCEPT !.op = op, !.prefer = prefer, !.fallback = fallback,
     !.maxSubpages = maxSubpages]

Start(r, op, prefer, fallback, html, maxSubpages) ==
  /\ req[r].pc = "idle"
  /\ started < MaxRequests
  /\ started' = started + 1
  /\ LET m == moduleOf(op)
         available == getAvailableProvidersInternal(state[m], env, now)
         s1 == getAvailableProvidersInternalState(state[m], env, now)
         provider == selectProvider(s1, available, prefer, fallback, html)
         q == Entered(op, prefer, fallback, maxSubpages)
         invoke(p, rec) == [q EXCEPT !.pc = "call", !.provider = p, !.cur = p,
                                     !.recorded = rec, !.calls = <<p>>]
         fail(err) == [q EXCEPT !.pc = "done", !.outcome = Thrown(err)]
     IN /\ state' = [state EXCEPT ![m] = s1]
        /\ req' = [req EXCEPT ![r] =
             IF provider # NoProvider THEN invoke(provider, TRUE)
             ELSE IF /\ ~adapterAvailable(env, "exa")
                     /\ ~adapterAvailable(env, "firecrawl")
                     /\ ~adapterAvailable(env, "cheerio")
                  THEN fail(NoProvidersError)
             ELSE IF fallback THEN invoke(tryProvider(env, prefer), ~isBatch(op))
             ELSE fail(ProviderUnavailableError)]
  /\ UNCHANGED <<now, env, content, walk, batch>>

(***************************************************************************)
(* The awaited adapter call resolves                                       *)
(***************************************************************************)
AdapterResolves(r, hasLinks, subOk) ==
  /\ req[r].pc = "call"
  /\ "ok" \in adapterOutcomes(env, req[r].op, req[r].cur)
  /\ LET q == req[r]
         m == moduleOf(q.op)
     IN /\ state' = IF q.recorded
                    THEN [state EXCEPT ![m] = recordSuccess(state[m], q.cur, now)]
                    ELSE state
        /\ req' = [req EXCEPT ![r] =
             [q EXCEPT !.pc = "done", !.settled = Append(@, "ok"),
                !.delegated = firecrawlDelegates(q.op, q.cur, q.maxSubpages, hasLinks),
                !.outcome = Returned(normalizedProvider(q.cur),
                     subpageProviders(q.op, q.cur, q.maxSubpages, hasLinks, subOk))]]
  /\ UNCHANGED <<now, env, started, content, walk, batch>>

(***************************************************************************)
(* The awaited adapter call rejects                                        *)
(***************************************************************************)
\* the request after the loop over the alternatives went on from position i
tryFrom(q, s, i, firstError, lastError) ==
  LET alts == alternatives(q.provider)
      j == nextAlternative(s, env, alts, i, now)
  IN IF j = 0
     THEN [q EXCEPT !.pc = "done", !.error = firstError,
                    !.outcome = Thrown(exhaustedError(firstError, lastError))]
     ELSE [q EXCEPT !.cur = alts[j], !.altIdx = j, !.error = firstError,
                    !.calls = Append(@, alts[j])]

AdapterRejects(r, kind) ==
  /\ req[r].pc = "call"
  /\ kind \in adapterOutcomes(env, req[r].op, req[r].cur) \ {"ok"}
  /\ LET q == [req[r] EXCEPT !.settled = Append(@, kind)]
         m == moduleOf(q.op)
         s == state[m]
         err == errorOf(kind, q.cur)
         thrown == [q EXCEPT !.pc = "done", !.error = err, !.outcome = Thrown(err)]
         rl == recordRateLimit(s, q.cur, now)
         re == recordError(s, q.cur)
         alts == alternatives(q.provider)
     IN IF ~q.recorded
        THEN /\ state' = state
             /\ req' = [req EXCEPT ![r] = thrown]
        ELSE IF q.altIdx = 0
        THEN IF kind = "rate"
             THEN IF fallbackEnabled(q.fallback)
                  THEN /\ state' = [state EXCEPT ![m] =
                                      nextAlternativeState(rl, env, alts, 1, now)]
                       /\ req' = [req EXCEPT ![r] = tryFrom(q, rl, 1, err, err)]
                  ELSE /\ state' = [state EXCEPT ![m] = rl]
                       /\ req' = [req EXCEPT ![r] = thrown]
             ELSE /\ state' = [state EXCEPT ![m] = re]
                  /\ req' = [req EXCEPT ![r] = thrown]
        ELSE LET s1 == IF kind = "rate" THEN rl ELSE re
             IN /\ state' = [state EXCEPT ![m] =
                               nextAlternativeState(s1, env, alts, q.altIdx + 1, now)]
                /\ req' = [req EXCEPT ![r] = tryFrom(q, s1, q.altIdx + 1, q.error, err)]
  /\ UNCHANGED <<now, env, started, content, walk, batch>>

(***************************************************************************)
(* The caller takes the result; the slot is free for the next request      *)
(***************************************************************************)
Return(r) ==
  /\ req[r].pc = "done"
  /\ req' = [req EXCEPT ![r] = IdleRequest]
  /\ UNCHANGED <<now, env, state, started, content, walk, batch>>

(***************************************************************************)
(* getAvailableProviders / getAvailableCrawlingProviders                   *)
(***************************************************************************)
GetAvailableProviders(m) ==
  /\ state' = [state EXCEPT ![m] = getAvailableProvidersInternalState(state[m], env, now)]
  /\ state' # state      \* a call that clears nothing leaves every variable as it was
  /\ UNCHANGED <<now, env, req, started, content, walk, batch>>

(***************************************************************************)
(* Time passes                                                             *)
(***************************************************************************)
Tick ==
  /\ now + TickMs <= MaxTicks * TickMs
  /\ now' = now + TickMs
  /\ UNCHANGED <<env, state, req, started, content, walk, batch>>

(***************************************************************************)
(* Specifications                                                          *)
(*                                                                         *)
(* The two modules share no state, so a behaviour exercises one of them.   *)
(* Spec: callers that await each request before issuing the next one, all  *)
(* options.  SpecRace: callers that do not wait, so that all the requests  *)
(* of a behaviour can be in flight together, each in its own slot.         *)
(***************************************************************************)
Preferences == Providers \cup {NoProvider}
SubpageOptions(op) == IF moduleOf(op) = "crawler" THEN {0, 1} ELSE {0}

OneModule(op) ==
  \A m \in Modules \ {moduleOf(op)} :
     /\ state[m] = initProviders(env)
     /\ \A q \in Slots : req[q].pc = "idle" \/ moduleOf(req[q].op) = moduleOf(op)

Request(r) ==
  \E op \in Ops, prefer \in Preferences, fallback \in BOOLEAN, html \in BOOLEAN :
    \E maxSubpages \in SubpageOptions(op) :
       /\ OneModule(op)
       /\ \A q \in Slots : req[q].pc = "idle"
       /\ Start(r, op, prefer, fallback, html, maxSubpages)

Resolve(r) == \E hasLinks \in BOOLEAN, subOk \in BOOLEAN : AdapterResolves(r, hasLinks, subOk)
Reject(r) == \E kind \in {"rate", "err"} : AdapterRejects(r, kind)
List == \E m \in Modules : GetAvailableProviders(m)

Next ==
  \/ Request(1)
  \/ Resolve(1)
  \/ Reject(1)
  \/ Return(1)
  \/ List
  \/ Tick

Spec == Init /\ [][Next]_vars

RaceOps == {"scrape", "crawl"}

RaceRequest(r) ==
  \E op \in RaceOps, prefer \in Preferences, fallback \in BOOLEAN :
       /\ OneModule(op)
       /\ \A q \in 1..(r - 1) : req[q].pc # "idle"
       /\ Start(r, op, prefer, fallback, FALSE, 0)

NextRace ==
  \/ \E r \in Slots : RaceRequest(r)
  \/ \E r \in Slots : Resolve(r)
  \/ \E r \in Slots : Reject(r)
  \/ List
  \/ Tick

SpecRace == Init /\ [][NextRace]_vars

(***************************************************************************)
(* Vocabulary of the properties, stated on the variables alone             *)
(***************************************************************************)
KeyPresent(p) == p = "cheerio" \/ env[p]
InCooldown(m, p) == state[m][p].isLimited /\ now < state[m][p].resetAt
UsableAt(m, p) == KeyPresent(p) /\ ~InCooldown(m, p)

FixedAlternates(p) ==
  CASE p = "exa" -> <<"firecrawl", "cheerio">>
    [] p = "firecrawl" -> <<"exa", "cheerio">>
    [] p = "cheerio" -> <<"exa", "firecrawl">>

FixedPriority == <<"cheerio", "exa", "firecrawl">>

\* position of the first entry of seq after position i that is usable, 0 if none
FirstUsableAfter(m, seq, i) ==
  LET js == {j \in (i + 1)..Len(seq) : UsableAt(m, seq[j])}
  IN IF js = {} THEN 0 ELSE CHOOSE j \in js : \A k \in js : j <= k

\* the call request r awaits settles in this step, as `kind`
Settles(r, kind) ==
  /\ req[r].pc = "call"
  /\ req'[r].settled = Append(req[r].settled, kind)

\* request r enters in this step
Enters(r) == req[r].pc = "idle" /\ req'[r].pc # "idle"

\* the list and the choice a call of selectProvider makes in the current state
AvailableNow(m) == getAvailableProvidersInternal(state[m], env, now)
SelectedNow(m, prefer, fallback, html) ==
  selectProvider(getAvailableProvidersInternalState(state[m], env, now),
                 AvailableNow(m), prefer, fallback, html)

(***************************************************************************)
(* C1: in a single-URL request with fallback enabled, a rate-limit failure *)
(* of the selected provider is recorded for it, and the alternates are     *)
(* then tried one at a time in the fixed order of that provider, skipping  *)
(* each one that has no key or is inside its cooldown; a failing alternate *)
(* has its outcome recorded in the step that goes on to the next one, and  *)
(* the first alternate that resolves is returned with success recorded.    *)
(***************************************************************************)
C1_Step(r) ==
  LET q == req[r]
      q2 == req'[r]
      m == moduleOf(q.op)
      c == q.cur
      alts == FixedAlternates(q.provider)
      j == FirstUsableAfter(m, alts, q.altIdx)
      failed == \/ q.altIdx = 0 /\ Settles(r, "rate")
                \/ q.altIdx > 0 /\ (Settles(r, "rate") \/ Settles(r, "err"))
  IN (~isBatch(q.op) /\ q.fallback /\ q.recorded) =>
       /\ Settles(r, "rate") =>
            /\ state'[m][c].isLimited
            /\ state'[m][c].resetAt = now + RATE_LIMIT_COOLDOWN_MS
            /\ state'[m][c].errors = state[m][c].errors + 1
       /\ (q.altIdx > 0 /\ Settles(r, "err")) =>
            /\ state'[m][c].errors = state[m][c].errors + 1
            /\ state'[m][c].isLimited = state[m][c].isLimited
       /\ failed =>
            IF j = 0
            THEN q2.pc = "done" /\ q2.outcome.status = "throw" /\ q2.calls = q.calls
            ELSE q2.pc = "call" /\ q2.cur = alts[j] /\ q2.calls = Append(q.calls, alts[j])
       /\ (q.altIdx > 0 /\ Settles(r, "ok")) =>
            /\ q2.pc = "done"
            /\ q2.outcome.status = "ok" /\ q2.outcome.provider = c
            /\ q2.calls = q.calls
            /\ state'[m][c].lastSuccess = now
            /\ ~state'[m][c].isLimited
            /\ state'[m][c].errors = 0

C1_FallbackInOrder == [][\A r \in Slots : C1_Step(r)]_vars

\* exa was rate-limited, firecrawl (key set) was skipped inside its cooldown,
\* cheerio served the request
C1_Witness ==
  \E r \in Slots :
     /\ req[r].pc = "done" /\ req[r].fallback /\ ~isBatch(req[r].op)
     /\ env["firecrawl"]
     /\ req[r].calls = <<"exa", "cheerio">>
     /\ req[r].settled = <<"rate", "ok">>
     /\ req[r].outcome.provider = "cheerio"

(***************************************************************************)
(* C2: a single-URL request whose selected provider failed with a rate     *)
(* limit and that got no result from an alternate throws the rate-limit    *)
(* error of the selected provider: not an alternate's error, not "no       *)
(* providers available".                                                   *)
(***************************************************************************)
C2_ExhaustionThrowsOriginal ==
  \A r \in Slots :
     LET q == req[r]
     IN (/\ q.pc = "done" /\ ~isBatch(q.op)
         /\ Len(q.settled) >= 1 /\ q.settled[1] = "rate"
         /\ q.settled[Len(q.settled)] # "ok")
        => /\ q.outcome.status = "throw"
           /\ q.outcome.error.tag = "RateLimit"
           /\ q.outcome.error.from = q.calls[1]

\* both alternates were attempted and failed, the last one with a plain error
C2_Witness ==
  \E r \in Slots :
     /\ req[r].pc = "done" /\ ~isBatch(req[r].op)
     /\ req[r].calls = <<"exa", "firecrawl", "cheerio">>
     /\ req[r].settled = <<"rate", "rate", "err">>
     /\ req[r].outcome.error.from = "exa"

(***************************************************************************)
(* C8: a preferred provider that is usable when the request enters is the  *)
(* one selected, whatever html and fallback are, and when its call         *)
(* resolves the result carries provider = the preferred provider.          *)
(***************************************************************************)
C8_Step(r) ==
  LET q2 == req'[r]
      m == moduleOf(q2.op)
  IN /\ (Enters(r) /\ q2.prefer # NoProvider /\ UsableAt(m, q2.prefer)) =>
          /\ q2.pc = "call"
          /\ q2.provider = q2.prefer
          /\ q2.calls = <<q2.prefer>>
     /\ (Settles(r, "ok") /\ req[r].altIdx = 0 /\ req[r].prefer = req[r].provider) =>
          /\ q2.outcome.status = "ok"
          /\ q2.outcome.provider = req[r].prefer

C8_PreferredIsSelected ==
  /\ [](\A m \in Modules, p \in Providers, fallback \in BOOLEAN, html \in BOOLEAN :
           UsableAt(m, p) => SelectedNow(m, p, fallback, html) = p)
  /\ [][\A r \in Slots : C8_Step(r)]_vars

\* firecrawl preferred with fallback off, selected and its result returned
C8_Witness ==
  \E r \in Slots :
     /\ req[r].pc = "done" /\ req[r].prefer = "firecrawl" /\ ~req[r].fallback
     /\ req[r].calls = <<"firecrawl">>
     /\ req[r].outcome.status = "ok" /\ req[r].outcome.provider = "firecrawl"
     /\ SelectedNow(moduleOf(req[r].op), "exa", TRUE, TRUE) = "exa"

(***************************************************************************)
(* C9: without a preference, html requested and firecrawl usable select    *)
(* firecrawl; in every other case without a preference, and when the       *)
(* preferred provider is unusable with fallback enabled, the first usable  *)
(* provider in the order cheerio, exa, firecrawl is selected; a request    *)
(* with no remote key is served by cheerio.                                *)
(***************************************************************************)
C9_Expected(m, prefer, html) ==
  IF prefer = NoProvider /\ html /\ UsableAt(m, "firecrawl") THEN "firecrawl"
  ELSE FixedPriority[FirstUsableAfter(m, FixedPriority, 0)]

C9_Covers(m, prefer, fallback) ==
  prefer = NoProvider \/ (~UsableAt(m, prefer) /\ fallback)

C9_Step(r) ==
  LET q2 == req'[r]
      m == moduleOf(q2.op)
  IN (Enters(r) /\ C9_Covers(m, q2.prefer, q2.fallback)) =>
       /\ q2.pc = "call"
       /\ q2.provider \in {C9_Expected(m, q2.prefer, TRUE), C9_Expected(m, q2.prefer, FALSE)}
       /\ (~env["exa"] /\ ~env["firecrawl"]) => q2.provider = "cheerio"

C9_DefaultSelection ==
  /\ [](\A m \in Modules, prefer \in Preferences, fallback \in BOOLEAN, html \in BOOLEAN :
           C9_Covers(m, prefer, fallback) =>
              SelectedNow(m, prefer, fallback, html) = C9_Expected(m, prefer, html))
  /\ [][\A r \in Slots : C9_Step(r)]_vars

\* no preference and firecrawl selected: the html rule chose it
C9_Witness ==
  \E r \in Slots :
     /\ req[r].pc = "done" /\ req[r].prefer = NoProvider
     /\ req[r].provider = "firecrawl"
     /\ req[r].outcome.status = "ok" /\ req[r].outcome.provider = "firecrawl"
     /\ SelectedNow(moduleOf(req[r].op), NoProvider, TRUE, FALSE) = "cheerio"

(***************************************************************************)
(* C10: the list of available providers holds exactly the providers with   *)
(* a key (cheerio needs none) that are not inside a cooldown, in the order *)
(* exa, firecrawl, cheerio without duplicates; it is never empty, because  *)
(* cheerio is always in it and is never marked rate-limited.               *)
(***************************************************************************)
C10_AvailableList ==
  \A m \in Modules :
     LET l == AvailableNow(m)
     IN /\ {l[i] : i \in 1..Len(l)} = {p \in Providers : UsableAt(m, p)}
        /\ \A i, j \in 1..Len(l) : i # j => l[i] # l[j]
        /\ l # <<>>
        /\ includes(l, "cheerio")
        /\ ~state[m]["cheerio"].isLimited

\* both remote providers have a key and are inside their cooldown
C10_Witness ==
  \E m \in Modules :
     /\ env["exa"] /\ env["firecrawl"]
     /\ InCooldown(m, "exa") /\ InCooldown(m, "firecrawl")
     /\ AvailableNow(m) = <<"cheerio">>

(***************************************************************************)
(* C3 (as stated): when the call to the selected provider fails with an    *)
(* error that is not a rate limit, only that provider's error count goes   *)
(* up, no other adapter is invoked, the provider is left not rate-limited  *)
(* and the same error is thrown, with fallback enabled or not.             *)
(***************************************************************************)
C3_PlainFailure(r) == Settles(r, "err") /\ req[r].altIdx = 0 /\ req[r].recorded

C3_Effect(r) ==
  LET q == req[r]
      q2 == req'[r]
      m == moduleOf(q.op)
      p == q.cur
  IN /\ state'[m][p].errors = state[m][p].errors + 1
     /\ \A o \in Providers \ {p} : state'[m][o] = state[m][o]
     /\ \A mm \in Modules \ {m} : state'[mm] = state[mm]
     /\ q2.calls = q.calls /\ ~q2.delegated
     /\ q2.pc = "done"
     /\ q2.outcome.status = "throw"
     /\ q2.outcome.error = [tag |-> "Error", from |-> p]

C3_Original ==
  [][\A r \in Slots : C3_PlainFailure(r) =>
        /\ C3_Effect(r)
        /\ ~state'[moduleOf(req[r].op)][req[r].cur].isLimited]_vars

(***************************************************************************)
(* C3 (amended): ... the provider's rate-limit flag, resetAt and           *)
(* lastSuccess are left as they were: it is not rate-limited afterwards    *)
(* unless another request in flight had recorded a rate limit for it.      *)
(***************************************************************************)
C3_PlainErrorNoFallback ==
  [][\A r \in Slots : C3_PlainFailure(r) =>
        LET m == moduleOf(req[r].op)
            p == req[r].cur
        IN /\ C3_Effect(r)
           /\ state'[m][p].isLimited = state[m][p].isLimited
           /\ state'[m][p].resetAt = state[m][p].resetAt
           /\ state'[m][p].lastSuccess = state[m][p].lastSuccess]_vars

\* exa failed plainly with fallback enabled and both alternates usable
C3_Witness ==
  \E r \in Slots :
     LET m == moduleOf(req[r].op)
     IN /\ req[r].pc = "done" /\ req[r].fallback
        /\ req[r].calls = <<"exa">> /\ req[r].settled = <<"err">>
        /\ req[r].outcome.error = [tag |-> "Error", from |-> "exa"]
        /\ state[m]["exa"].errors = 1 /\ ~state[m]["exa"].isLimited
        /\ UsableAt(m, "firecrawl")

(***************************************************************************)
(* C4 (as stated): with fallback disabled no adapter other than the        *)
(* selected one is invoked; a rate-limit failure of the selected provider  *)
(* is recorded for it and thrown without trying an alternate, in single    *)
(* and batch operations; a result has provider = the requested one.        *)
(***************************************************************************)
C4_RateLimitThrown(r) ==
  LET q == req[r]
      q2 == req'[r]
      m == moduleOf(q.op)
      p == q.cur
  IN (Settles(r, "rate") /\ ~q.fallback /\ q.recorded) =>
       /\ state'[m][p].isLimited
       /\ state'[m][p].resetAt = now + RATE_LIMIT_COOLDOWN_MS
       /\ state'[m][p].errors = state[m][p].errors + 1
       /\ q2.pc = "done" /\ q2.calls = q.calls
       /\ q2.outcome.status = "throw"
       /\ q2.outcome.error = [tag |-> "RateLimit", from |-> p]

C4_OnlySelected(q) ==
  (q.pc # "idle" /\ ~q.fallback) =>
     /\ q.calls \in {<<>>, <<q.provider>>}
     /\ q.outcome.status = "ok" =>
          /\ q.outcome.provider = q.provider
          /\ q.prefer # NoProvider => q.outcome.provider = q.prefer

C4_NoOtherAdapter(q) ==
  (q.pc # "idle" /\ ~q.fallback) =>
     /\ ~q.delegated
     /\ q.outcome.subs \subseteq {q.provider}

C4_Original ==
  [][\A r \in Slots :
        /\ C4_RateLimitThrown(r)
        /\ C4_OnlySelected(req'[r])
        /\ C4_NoOtherAdapter(req'[r])]_vars

(***************************************************************************)
(* C4 (amended): with fallback disabled the orchestrator invokes no        *)
(* adapter other than the selected one ... and the result (the root page,  *)
(* the pages of a batch) has provider = the requested one; the firecrawl   *)
(* adapter of the crawler, asked for subpages (maxSubpages > 0), itself    *)
(* fetches them through the cheerio adapter, and they carry provider       *)
(* cheerio.                                                                *)
(***************************************************************************)
C4_Delegation(q) ==
  (q.pc # "idle" /\ ~q.fallback) =>
     /\ q.delegated =>
          (q.provider = "firecrawl" /\ moduleOf(q.op) = "crawler" /\ q.maxSubpages > 0)
     /\ q.outcome.subs \subseteq
          (IF q.provider = "exa" THEN {"exa"} ELSE {"cheerio"})
     /\ (q.outcome.subs # {} /\ q.provider = "firecrawl") => q.delegated

C4_NoFallbackWhenDisabled ==
  [][\A r \in Slots :
        /\ C4_RateLimitThrown(r)
        /\ C4_OnlySelected(req'[r])
        /\ C4_Delegation(req'[r])]_vars

\* exa requested with fallback off, rate-limited, thrown, firecrawl not tried
C4_Witness ==
  \E r \in Slots :
     LET m == moduleOf(req[r].op)
     IN /\ req[r].pc = "done" /\ ~req[r].fallback /\ isBatch(req[r].op)
        /\ req[r].calls = <<"exa">> /\ req[r].settled = <<"rate">>
        /\ req[r].outcome.error = [tag |-> "RateLimit", from |-> "exa"]
        /\ InCooldown(m, "exa") /\ UsableAt(m, "firecrawl")

(***************************************************************************)
(* C5 (as stated): a request that names a provider with fallback disabled  *)
(* while that provider is not usable fails with "provider not available    *)
(* and fallback disabled"; no adapter is invoked, no provider is           *)
(* substituted and no provider state changes.                              *)
(***************************************************************************)
C5_Case(r) ==
  /\ Enters(r)
  /\ req'[r].prefer # NoProvider
  /\ ~req'[r].fallback
  /\ ~UsableAt(moduleOf(req'[r].op), req'[r].prefer)

C5_Fails(r) ==
  /\ req'[r].pc = "done"
  /\ req'[r].outcome.status = "throw"
  /\ req'[r].outcome.error.tag = "ProviderUnavailable"
  /\ req'[r].calls = <<>> /\ ~req'[r].delegated
  /\ req'[r].provider = NoProvider

C5_Original ==
  [][\A r \in Slots : C5_Case(r) => (C5_Fails(r) /\ state' = state)]_vars

(***************************************************************************)
(* C5 (amended): ... and no provider state changes, except that the        *)
(* selection clears the expired rate limit (flag and resetAt) of another   *)
(* provider of the same module; error counts and lastSuccess stay.         *)
(***************************************************************************)
C5_OnlyExpiredCleared(r) ==
  LET m == moduleOf(req'[r].op)
  IN /\ \A mm \in Modules \ {m} : state'[mm] = state[mm]
     /\ state'[m][req'[r].prefer] = state[m][req'[r].prefer]
     /\ \A p \in Providers :
           \/ state'[m][p] = state[m][p]
           \/ /\ state[m][p].isLimited /\ now >= state[m][p].resetAt
              /\ state'[m][p] = [state[m][p] EXCEPT !.isLimited = FALSE, !.resetAt = None]

C5_UnavailableNoFallback ==
  [][\A r \in Slots : C5_Case(r) => (C5_Fails(r) /\ C5_OnlyExpiredCleared(r))]_vars

\* firecrawl has a key but is inside its cooldown; the request for it failed
C5_Witness ==
  \E r \in Slots :
     LET m == moduleOf(req[r].op)
     IN /\ req[r].pc = "done" /\ req[r].prefer = "firecrawl" /\ ~req[r].fallback
        /\ env["firecrawl"] /\ InCooldown(m, "firecrawl")
        /\ req[r].outcome.error.tag = "ProviderUnavailable"
        /\ req[r].calls = <<>>

(***************************************************************************)
(* C7 (as stated): a provider marked rate-limited is not usable again      *)
(* before its resetAt has elapsed, whatever requests are in flight.        *)
(***************************************************************************)
C7_Original ==
  [][\A m \in Modules, p \in Providers :
        (InCooldown(m, p) /\ now' < state[m][p].resetAt)
           => ~usableNow(state'[m], env', p, now')]_vars

(***************************************************************************)
(* C11: two calls of the list operation in immediate succession (nothing   *)
(* recorded and no time elapsed in between) return the same list, also     *)
(* when the first call clears an expired rate limit; the second call       *)
(* clears nothing.                                                         *)
(***************************************************************************)
C11_ListTwice ==
  \A m \in Modules :
     LET first == getAvailableProvidersInternal(state[m], env, now)
         s1 == getAvailableProvidersInternalState(state[m], env, now)
         second == getAvailableProvidersInternal(s1, env, now)
     IN /\ second = first
        /\ getAvailableProvidersInternalState(s1, env, now) = s1

\* a provider whose cooldown has elapsed is still flagged: the first call
\* clears the flag and lists the provider
C11_Witness ==
  \E m \in Modules, p \in Providers :
     /\ state[m][p].isLimited
     /\ state[m][p].resetAt # None /\ now >= state[m][p].resetAt
     /\ getAvailableProvidersInternalState(state[m], env, now) # state[m]
     /\ includes(getAvailableProvidersInternal(state[m], env, now), p)

(***************************************************************************)
(* Content normalization                                                   *)
(*                                                                         *)
(* A string is modelled by its length; None is undefined.  What the        *)
(* conversions produce (the text of a parsed body, the markdown turndown   *)
(* writes, the sanitized html) is part of the page, drawn with it.         *)
(***************************************************************************)
MaxLen == 2           \* longest string a page holds

Lengths == 0..MaxLen
OptionalLengths == {None} \cup Lengths

\* JavaScript truthiness of a string or number: undefined, "" and 0 are falsy
truthy(x) == x # None /\ x # 0
\* x || ""
orEmpty(x) == IF truthy(x) THEN x ELSE 0
\* if (options.maxChars && s.length > options.maxChars) s = s.substring(0, options.maxChars)
substring(len, maxChars) == IF truthy(maxChars) /\ len > maxChars THEN maxChars ELSE len

\* slip: slice keeps one element when asked for none
sliceKeepsOne(seq, n) ==
  SubSeq(seq, 1, IF Len(seq) < n THEN Len(seq) ELSE IF n = 0 /\ seq # <<>> THEN 1 ELSE n)

\* slip: slice takes the last n elements
sliceLast(seq, n) ==
  SubSeq(seq, (IF Len(seq) < n THEN 0 ELSE Len(seq) - n) + 1, Len(seq))

\* array.slice(0, n)
slice(seq, n) == SubSeq(seq, 1, IF Len(seq) < n THEN Len(seq) ELSE n)

DEFAULT_OPTIONS ==
  [fallback |-> TRUE, markdown |-> TRUE, html |-> FALSE, maxChars |-> None,
   maxSubpages |-> 0, maxDepth |-> 1, concurrency |-> 5, sameDomainOnly |-> TRUE]

\* the pages of the modelled web; a0 is the page every request is made for
Urls == {"a0", "a1", "a2", "b1"}
RootUrl == "a0"
NoUrl == "undefined"
\* new URL(u).hostname
hostname(u) == IF u = "b1" THEN "b.test" ELSE "a.test"
\* x || y for URLs
orUrl(x, y) == IF x # NoUrl THEN x ELSE y

\* a result without subpages; depth is None for the scraper's results
PageResult(url, text, markdown, html, provider, depth) ==
  [ok |-> TRUE, url |-> url, text |-> text, markdown |-> markdown, html |-> html,
   provider |-> provider, depth |-> depth, hasSubpages |-> FALSE, subpages |-> <<>>]
Failed == [ok |-> FALSE]

(***************************************************************************)
(* Exa                                                                     *)
(***************************************************************************)
buildExaOptions(options) ==
  [text |-> options.markdown,
   maxCharacters |-> options.maxChars,
   includeHtmlTags |-> options.html,
   subpages |-> IF options.maxSubpages > 0 THEN options.maxSubpages ELSE None]

\* client.getContents: the service cuts the text at maxCharacters when asked to
exaGetContents(page, exaOptions) ==
  LET text == IF page.text # None /\ exaOptions.text
              THEN substring(page.text, exaOptions.maxCharacters)
              ELSE page.text
  IN [page EXCEPT !.text = text,
                  !.bodyText = IF text = None \/ @ > text THEN orEmpty(text) ELSE @]

\* scraper: normalizeExaResult
normalizeExaResult(result, url, options) ==
  PageResult(orUrl(result.url, url),
             orEmpty(result.text),
             result.text,
             IF truthy(result.html) THEN result.html
             ELSE IF options.html THEN result.text ELSE None,
             "exa", None)

\* crawler: normalizeExaResultToCrawl
RECURSIVE normalizeExaResultToCrawl(_, _, _, _)
normalizeExaResultToCrawl(result, url, options, depth) ==
  LET exaText == orEmpty(result.text)
      exaHtml == orEmpty(result.html)
      isHtml == result.tagged /\ exaText >= 2
      htmlContent == IF exaHtml > 0 THEN exaHtml ELSE IF isHtml THEN exaText ELSE 0
      bodyText == IF isHtml THEN result.bodyText ELSE exaText
      converted == IF ~isHtml /\ exaText > 0 THEN exaText
                   ELSE IF htmlContent > 0 THEN result.turndown
                   ELSE None
      markdown == IF ~options.markdown THEN None
                  ELSE IF truthy(converted) THEN substring(converted, options.maxChars)
                  ELSE converted
      text == substring(bodyText, options.maxChars)
      maxSubpages == options.maxSubpages
      subpagesToProcess == slice(result.subpages, maxSubpages)
      n == Len(subpagesToProcess)
      subpages == [i \in 1..n |->
                     normalizeExaResultToCrawl(subpagesToProcess[i],
                                               orUrl(subpagesToProcess[i].url, url),
                                               options, depth + 1)]
  IN [PageResult(orUrl(result.url, url), text, markdown,
                 IF options.html THEN htmlContent ELSE None, "exa", depth)
        EXCEPT !.hasSubpages = n > 0, !.subpages = subpages]

(***************************************************************************)
(* Firecrawl                                                               *)
(***************************************************************************)
buildFirecrawlOptions(options) ==
  LET formats == (IF options.markdown THEN <<"markdown">> ELSE <<>>)
                 \o (IF options.html THEN <<"html">> ELSE <<>>)
  IN [formats |-> IF formats = <<>> THEN <<"markdown">> ELSE formats]

\* client.scrape: the service returns the formats asked for
firecrawlScrape(page, firecrawlOptions) ==
  [page EXCEPT
     !.markdown = IF includes(firecrawlOptions.formats, "markdown") THEN @ ELSE None,
     !.html = IF includes(firecrawlOptions.formats, "html") THEN @ ELSE None]

normalizeFirecrawlResult(data, url) ==
  PageResult(orUrl(data.sourceURL, url),
             IF truthy(data.markdown) THEN data.markdown ELSE orEmpty(data.html),
             data.markdown, data.html, "firecrawl", None)

normalizeFirecrawlResultToCrawl(data, url, depth) ==
  [normalizeFirecrawlResult(data, url) EXCEPT !.depth = depth]

(***************************************************************************)
(* Cheerio                                                                 *)
(***************************************************************************)
\* Readability found no article: the normalizer throws
normalizeCheerioResult(page, url, options) ==
  IF ~page.readable THEN Failed
  ELSE PageResult(url,
                  substring(page.textContent, options.maxChars),
                  IF ~options.markdown THEN None
                  ELSE IF truthy(page.turndown)
                       THEN substring(page.turndown, options.maxChars)
                       ELSE page.turndown,
                  IF options.html THEN page.htmlContent ELSE None,
                  "cheerio", None)

normalizeCheerioResultToCrawl(page, url, options, depth) ==
  IF ~page.readable THEN Failed
  ELSE [normalizeCheerioResult(page, url, options) EXCEPT !.depth = depth]

(***************************************************************************)
(* One adapter call from the options to the normalized result              *)
(***************************************************************************)
ContentOptions ==
  {[DEFAULT_OPTIONS EXCEPT !.markdown = md, !.html = h, !.maxChars = mc] :
     md \in BOOLEAN, h \in BOOLEAN, mc \in OptionalLengths}

ExaPages ==
  {pg \in [url : {NoUrl, RootUrl}, text : OptionalLengths, tagged : BOOLEAN,
           html : OptionalLengths, bodyText : Lengths, turndown : Lengths,
           subpages : {<<>>}] :
     /\ pg.tagged => (pg.text # None /\ pg.text >= 2)
     /\ pg.bodyText <= orEmpty(pg.text)
     /\ ~pg.tagged => pg.bodyText = 0}
FirecrawlPages ==
  [sourceURL : {NoUrl, RootUrl}, markdown : OptionalLengths, html : OptionalLengths,
   hasLinks : {FALSE}, links : {<<>>}]
CheerioPages ==
  {pg \in [readable : BOOLEAN, textContent : Lengths, htmlContent : Lengths,
           turndown : Lengths] :
     ~pg.readable => (pg.textContent = 0 /\ pg.htmlContent = 0 /\ pg.turndown = 0)}

PagesOf(provider) ==
  CASE provider = "exa" -> ExaPages
    [] provider = "firecrawl" -> FirecrawlPages
    [] provider = "cheerio" -> CheerioPages

InitContent ==
  /\ now = 0
  /\ env = [k \in {"exa", "firecrawl"} |-> TRUE]
  /\ state = [m \in Modules |-> initProviders(env)]
  /\ req = [r \in Slots |-> IdleRequest]
  /\ started = 0
  /\ walk = NoWalk
  /\ batch = NoBatch
  /\ \E m \in Modules, provider \in Providers :
       \E options \in ContentOptions, page \in PagesOf(provider) :
          content = [pc |-> "call", module |-> m, provider |-> provider,
                     options |-> options, page |-> page, result |-> Failed]

Normalized(result) ==
  /\ content' = [content EXCEPT !.pc = "done", !.result = result]
  /\ UNCHANGED <<now, env, state, req, started, walk, batch>>

ExaResponds ==
  /\ content.pc = "call" /\ content.provider = "exa"
  /\ LET response == exaGetContents(content.page, buildExaOptions(content.options))
     IN Normalized(IF content.module = "scraper"
                   THEN normalizeExaResult(response, RootUrl, content.options)
                   ELSE normalizeExaResultToCrawl(response, RootUrl, content.options, 0))

FirecrawlResponds ==
  /\ content.pc = "call" /\ content.provider = "firecrawl"
  /\ LET data == firecrawlScrape(content.page, buildFirecrawlOptions(content.options))
     IN Normalized(IF content.module = "scraper"
                   THEN normalizeFirecrawlResult(data, RootUrl)
                   ELSE normalizeFirecrawlResultToCrawl(data, RootUrl, 0))

CheerioResponds ==
  /\ content.pc = "call" /\ content.provider = "cheerio"
  /\ Normalized(IF content.module = "scraper"
                THEN normalizeCheerioResult(content.page, RootUrl, content.options)
                ELSE normalizeCheerioResultToCrawl(content.page, RootUrl, content.options, 0))

NextContent == ExaResponds \/ FirecrawlResponds \/ CheerioResponds

SpecContent == InitContent /\ [][NextContent]_vars

\* the call has returned a result
Succeeded == content.pc = "done" /\ content.result.ok
\* the length of a field that is present
Present(x) == x # None

(***************************************************************************)
(* C12 (as stated): with maxChars = N the text of a returned result has    *)
(* length at most N, and so has its markdown when present, whichever       *)
(* provider produced it.                                                   *)
(***************************************************************************)
C12_Original ==
  (Succeeded /\ content.options.maxChars # None) =>
     /\ content.result.text <= content.options.maxChars
     /\ Present(content.result.markdown) =>
          content.result.markdown <= content.options.maxChars

(***************************************************************************)
(* C13 (as stated): every result returned as a success has a text that is  *)
(* present and not empty, whatever the provider returned.                  *)
(***************************************************************************)
C13_Original ==
  Succeeded => (Present(content.result.text) /\ content.result.text > 0)

(***************************************************************************)
(* C14 (as stated): in a returned result markdown is present only if       *)
(* markdown was requested and html is present only if html was requested.  *)
(***************************************************************************)
C14_Original ==
  Succeeded =>
     /\ Present(content.result.markdown) => content.options.markdown
     /\ Present(content.result.html) => content.options.html

(***************************************************************************)
(* Crawling: subpage discovery                                             *)
(*                                                                         *)
(* A crawl is a tree of nodes named by their path from the root (<<>>,     *)
(* <<1>>, <<2, 1>>, ...).  The links of a page are drawn when its fetch    *)
(* resolves.  Everything that runs without waiting for the network (the    *)
(* start of queued siblings, the return of a page whose children have all  *)
(* settled) happens in the step of the fetch that set it off.              *)
(***************************************************************************)
MaxSubpages == 2      \* largest maxSubpages option
MaxDepth == 2         \* largest maxDepth option
MaxLinks == 2         \* most links (or remote subpages) a page offers

\* concurrency 1 runs siblings one after the other, 5 (the default) at once
ConcurrencyOptions == {1, DEFAULT_OPTIONS.concurrency}

CrawlOptions ==
  {[DEFAULT_OPTIONS EXCEPT !.maxSubpages = ms, !.maxDepth = md,
                           !.sameDomainOnly = sd, !.concurrency = cc] :
     ms \in 0..MaxSubpages, md \in 0..MaxDepth, sd \in BOOLEAN,
     cc \in ConcurrencyOptions}

\* the sequences of at most n elements of S
SeqsUpTo(S, n) == UNION {[1..k -> S] : k \in 0..n}
\* Array.from(new Set(links))
RECURSIVE deduplicate(_)
deduplicate(seq) ==
  IF seq = <<>> THEN <<>>
  ELSE LET front == deduplicate(SubSeq(seq, 1, Len(seq) - 1))
           last == seq[Len(seq)]
       IN IF includes(front, last) THEN front ELSE Append(front, last)

\* slip: the host of a link is never compared with the host of the page
extractLinksAnyHost(anchors, baseUrl, sameDomainOnly) ==
  deduplicate(anchors)

\* the anchors of a page are its absolute http(s) links in document order
extractLinks(anchors, baseUrl, sameDomainOnly) ==
  deduplicate(SelectSeq(anchors,
     LAMBDA u : ~(sameDomainOnly /\ hostname(u) # hostname(baseUrl))))

\* what a fetched page holds besides its links
ReadablePage == [readable |-> TRUE, textContent |-> 1, htmlContent |-> 1, turndown |-> 1]
UnreadablePage == [readable |-> FALSE, textContent |-> 0, htmlContent |-> 0, turndown |-> 0]

\* response.ok, whether Readability finds an article, and the page's anchors
FetchResponses ==
  [ok : BOOLEAN, readable : BOOLEAN, anchors : SeqsUpTo(Urls, MaxLinks)]

(***************************************************************************)
(* cheerioAdapter.crawl: crawlRecursive and the pMap over its children     *)
(***************************************************************************)
QueuedNode(url, depth) ==
  [url |-> url, depth |-> depth, pc |-> "queued", anchors |-> <<>>,
   candidates |-> <<>>, mapped |-> FALSE]

childPaths(c, path) == {Append(path, i) : i \in 1..Len(c.nodes[path].candidates)}

\* slip: only the depth is checked before the fetch
crawlRecursiveEnterRevisits(c, path) ==
  LET n == c.nodes[path]
  IN IF n.depth > c.options.maxDepth
     THEN [c EXCEPT !.nodes[path].pc = "null"]
     ELSE [c EXCEPT !.visited = @ \cup {n.url},
                    !.nodes[path].pc = "fetching",
                    !.fetched = Append(@, n.url)]

\* crawlRecursive up to its fetch: throws if visited or too deep, else marks
\* the URL visited and starts the fetch
crawlRecursiveEnter(c, path) ==
  LET n == c.nodes[path]
  IN IF n.url \in c.visited \/ n.depth > c.options.maxDepth
     THEN [c EXCEPT !.nodes[path].pc = "null"]
     ELSE [c EXCEPT !.visited = @ \cup {n.url},
                    !.nodes[path].pc = "fetching",
                    !.fetched = Append(@, n.url)]

\* mappers of one pMap call that have started and not yet settled
inFlight(c, parent) ==
  Cardinality({p \in childPaths(c, parent) : c.nodes[p].pc \in {"fetching", "mapping"}})

\* pMap starts queued items in order while fewer than `concurrency` run
RECURSIVE pMapNext(_, _)
pMapNext(c, parent) ==
  LET queued == {i \in 1..Len(c.nodes[parent].candidates) :
                   c.nodes[Append(parent, i)].pc = "queued"}
  IN IF queued = {} \/ inFlight(c, parent) >= c.options.concurrency THEN c
     ELSE LET i == CHOOSE k \in queued : \A j \in queued : k <= j
          IN pMapNext(crawlRecursiveEnter(c, Append(parent, i)), parent)

\* the node at `path` has returned or thrown: its parent's pMap goes on, and
\* the parent returns once every child has settled
RECURSIVE settled(_, _)
settled(c, path) ==
  IF path = <<>> THEN c
  ELSE LET parent == SubSeq(path, 1, Len(path) - 1)
           c1 == pMapNext(c, parent)
       IN IF \A p \in childPaths(c1, parent) : c1.nodes[p].pc \in {"done", "null"}
          THEN settled([c1 EXCEPT !.nodes[parent].pc = "done"], parent)
          ELSE c1

\* crawlRecursive from the response of its fetch on
crawlRecursiveFetched(c, path, response) ==
  LET n == c.nodes[path]
      options == c.options
      result == normalizeCheerioResultToCrawl(
                   IF response.readable THEN ReadablePage ELSE UnreadablePage,
                   n.url, options, n.depth)
      links == extractLinks(response.anchors, n.url, options.sameDomainOnly)
      linksToCrawl == slice(SelectSeq(links, LAMBDA u : u \notin c.visited),
                            options.maxSubpages)
      kids == {Append(path, i) : i \in 1..Len(linksToCrawl)}
  IN IF ~response.ok \/ ~result.ok
     THEN settled([c EXCEPT !.nodes[path].pc = "null"], path)
     ELSE IF n.depth < options.maxDepth /\ options.maxSubpages > 0
             /\ Len(linksToCrawl) > 0
     THEN LET c1 == [c EXCEPT !.nodes =
                       [p \in DOMAIN c.nodes \cup kids |->
                          IF p \in kids
                          THEN QueuedNode(linksToCrawl[p[Len(p)]], n.depth + 1)
                          ELSE IF p = path
                          THEN [n EXCEPT !.pc = "mapping", !.mapped = TRUE,
                                         !.anchors = response.anchors,
                                         !.candidates = linksToCrawl]
                          ELSE c.nodes[p]]]
              c2 == pMapNext(c1, path)
          IN IF \A p \in kids : c2.nodes[p].pc \in {"done", "null"}
             THEN settled([c2 EXCEPT !.nodes[path].pc = "done"], path)
             ELSE c2
     ELSE IF n.depth < options.maxDepth /\ options.maxSubpages > 0
     THEN settled([c EXCEPT !.nodes[path].pc = "done",
                            !.nodes[path].anchors = response.anchors], path)
     ELSE settled([c EXCEPT !.nodes[path].pc = "done"], path)

\* the result a settled node returns: subpages keeps the children that
\* returned, in the order of the candidates
RECURSIVE resultOf(_, _)
\* slip: subpages lists the children from the last candidate to the first
resultOfReversed(c, path) ==
  LET n == c.nodes[path]
      page == normalizeCheerioResultToCrawl(ReadablePage, n.url, c.options, n.depth)
      kept == SelectSeq([i \in 1..Len(n.candidates) |-> Len(n.candidates) + 1 - i],
                        LAMBDA i : c.nodes[Append(path, i)].pc = "done")
  IN [page EXCEPT !.hasSubpages = n.mapped,
                  !.subpages = [j \in 1..Len(kept) |-> resultOf(c, Append(path, kept[j]))]]

resultOf(c, path) ==
  LET n == c.nodes[path]
      page == normalizeCheerioResultToCrawl(ReadablePage, n.url, c.options, n.depth)
      kept == SelectSeq([i \in 1..Len(n.candidates) |-> i],
                        LAMBDA i : c.nodes[Append(path, i)].pc = "done")
  IN [page EXCEPT !.hasSubpages = n.mapped,
                  !.subpages = [j \in 1..Len(kept) |-> resultOf(c, Append(path, kept[j]))]]

\* cheerioAdapter.crawl with maxSubpages 0, as crawlBatch runs it per URL
cheerioCrawlSingle(url, options, response) ==
  IF 0 > options.maxDepth \/ ~response.ok THEN Failed
  ELSE normalizeCheerioResultToCrawl(
          IF response.readable THEN ReadablePage ELSE UnreadablePage, url, options, 0)

\* cheerioAdapter.crawlBatch: the results of the URLs that did not fail
cheerioCrawlBatch(urls, options, responses) ==
  LET kept == SelectSeq([i \in 1..Len(urls) |-> i],
                LAMBDA i : cheerioCrawlSingle(urls[i], options, responses[i]).ok)
  IN [j \in 1..Len(kept) |->
        cheerioCrawlSingle(urls[kept[j]], options, responses[kept[j]])]

(***************************************************************************)
(* One crawl from the call of the adapter to its result                    *)
(***************************************************************************)
InitWalk ==
  /\ now = 0
  /\ env = [k \in {"exa", "firecrawl"} |-> TRUE]
  /\ state = [m \in Modules |-> initProviders(env)]
  /\ req = [r \in Slots |-> IdleRequest]
  /\ started = 0
  /\ content = NoContent
  /\ batch = NoBatch
  /\ \E provider \in Providers, options \in CrawlOptions :
       walk = [pc |-> "call", provider |-> provider, options |-> options,
               visited |-> {}, nodes |-> (<<>> :> QueuedNode(RootUrl, 0)),
               fetched |-> <<>>, asked |-> None, result |-> Failed]

\* slip: a child that threw makes the whole crawl throw
FinishedFailsOnChild(c) ==
  IF c.nodes[<<>>].pc = "null"
     \/ (c.nodes[<<>>].pc = "done" /\ \E p \in DOMAIN c.nodes : c.nodes[p].pc = "null")
  THEN [c EXCEPT !.pc = "threw"]
  ELSE IF c.nodes[<<>>].pc = "done"
  THEN [c EXCEPT !.pc = "done", !.result = resultOf(c, <<>>)]
  ELSE c

\* the crawl is over once its root has returned or thrown
Finished(c) ==
  IF c.nodes[<<>>].pc = "done"
  THEN [c EXCEPT !.pc = "done", !.result = resultOf(c, <<>>)]
  ELSE IF c.nodes[<<>>].pc = "null" THEN [c EXCEPT !.pc = "threw"]
  ELSE c

CheerioCrawl ==
  /\ walk.pc = "call" /\ walk.provider = "cheerio"
  /\ walk' = Finished([crawlRecursiveEnter(walk, <<>>) EXCEPT !.pc = "crawling"])
  /\ UNCHANGED <<now, env, state, req, started, content, batch>>

FetchResolves(path, response) ==
  /\ walk.pc = "crawling"
  /\ walk.nodes[path].pc = "fetching"
  /\ walk' = Finished(crawlRecursiveFetched(walk, path, response))
  /\ UNCHANGED <<now, env, state, req, started, content, batch>>

\* what Exa returns for the root: pages with up to two levels of subpages
ExaPage(url, subpages) ==
  [url |-> url, text |-> 1, tagged |-> FALSE, html |-> None, bodyText |-> 0,
   turndown |-> 0, subpages |-> subpages]
ExaSubpageUrls == (Urls \ {RootUrl}) \cup {NoUrl}
ExaLeaves == {ExaPage(u, <<>>) : u \in ExaSubpageUrls}
ExaBranches == {ExaPage(u, subs) : u \in ExaSubpageUrls, subs \in SeqsUpTo(ExaLeaves, 1)}
ExaRoots == {ExaPage(u, subs) : u \in {NoUrl, RootUrl}, subs \in SeqsUpTo(ExaBranches, MaxLinks)}

urlsOf(pages) == [i \in 1..Len(pages) |-> pages[i].url]

\* exaAdapter.crawl
ExaCrawl ==
  /\ walk.pc = "call" /\ walk.provider = "exa"
  /\ \E found \in BOOLEAN, response \in ExaRoots :
       LET exaOptions == buildExaOptions(walk.options)
           result == normalizeExaResultToCrawl(exaGetContents(response, exaOptions),
                                               RootUrl, walk.options, 0)
       IN walk' = IF ~found THEN [walk EXCEPT !.pc = "threw", !.asked = exaOptions.subpages]
                  ELSE [walk EXCEPT !.pc = "done", !.asked = exaOptions.subpages,
                                    !.nodes[<<>>].anchors = urlsOf(response.subpages),
                                    !.result = result]
  /\ UNCHANGED <<now, env, state, req, started, content, batch>>

\* firecrawlAdapter.crawl: the root from Firecrawl, its links through
\* cheerioAdapter.crawlBatch
FirecrawlCrawl ==
  /\ walk.pc = "call" /\ walk.provider = "firecrawl"
  /\ \E scraped \in BOOLEAN, hasLinks \in BOOLEAN, links \in SeqsUpTo(Urls, MaxLinks),
        responses \in [1..MaxLinks -> [ok : BOOLEAN, readable : BOOLEAN, anchors : {<<>>}]] :
       LET options == walk.options
           data == firecrawlScrape(
                      [sourceURL |-> NoUrl, markdown |-> 1, html |-> 1,
                       hasLinks |-> hasLinks, links |-> IF hasLinks THEN links ELSE <<>>],
                      buildFirecrawlOptions(options))
           result == normalizeFirecrawlResultToCrawl(data, RootUrl, 0)
           maxSubpages == IF options.maxSubpages < Len(data.links)
                          THEN options.maxSubpages ELSE Len(data.links)
           subpageUrls == slice(data.links, maxSubpages)
           subpageResults ==
             cheerioCrawlBatch(subpageUrls,
                [options EXCEPT !.maxSubpages = 0,
                                !.maxDepth = (IF truthy(@) THEN @ ELSE 1) - 1],
                responses)
       IN walk' =
            IF ~scraped THEN [walk EXCEPT !.pc = "threw"]
            ELSE IF options.maxSubpages > 0 /\ data.hasLinks
            THEN [walk EXCEPT
                    !.pc = "done",
                    !.nodes[<<>>].anchors = data.links,
                    !.fetched = subpageUrls,
                    !.result = [result EXCEPT
                       !.hasSubpages = TRUE,
                       !.subpages = [i \in 1..Len(subpageResults) |->
                          [subpageResults[i] EXCEPT
                             !.depth = (IF truthy(@) THEN @ ELSE 0) + 1]]]]
            ELSE [walk EXCEPT !.pc = "done", !.nodes[<<>>].anchors = data.links,
                              !.result = result]
  /\ UNCHANGED <<now, env, state, req, started, content, batch>>

NextWalk ==
  \/ CheerioCrawl
  \/ \E path \in DOMAIN walk.nodes, response \in FetchResponses :
        FetchResolves(path, response)
  \/ ExaCrawl
  \/ FirecrawlCrawl

SpecWalk == InitWalk /\ [][NextWalk]_vars

\* every network call returns: a pending fetch is eventually answered
SpecWalkLive == SpecWalk /\ WF_vars(NextWalk)

(***************************************************************************)
(* The cheerio crawl alone, over a site with one more page, so that two    *)
(* parents can each have two unvisited children, and with a pool of two    *)
(***************************************************************************)
PoolUrls == Urls \cup {"a3"}

PoolConcurrency == {1, 2}

PoolOptions ==
  {[DEFAULT_OPTIONS EXCEPT !.maxSubpages = ms, !.maxDepth = md,
                           !.concurrency = cc, !.sameDomainOnly = sd] :
     ms \in 1..MaxSubpages, md \in 1..MaxDepth, cc \in PoolConcurrency,
     sd \in BOOLEAN}

PoolResponses ==
  [ok : BOOLEAN, readable : {TRUE}, anchors : SeqsUpTo(PoolUrls, MaxLinks)]

\* the root as the caller may write it: "https://a.test" is not the
\* serialization "https://a.test/" that every extracted link has
RootUrlBare == "a0-bare"

\* new URL(u).href
href(u) == IF u = RootUrlBare THEN RootUrl ELSE u

InitPool ==
  /\ now = 0
  /\ env = [k \in {"exa", "firecrawl"} |-> TRUE]
  /\ state = [m \in Modules |-> initProviders(env)]
  /\ req = [r \in Slots |-> IdleRequest]
  /\ started = 0
  /\ content = NoContent
  /\ batch = NoBatch
  /\ \E options \in PoolOptions :
       walk = [pc |-> "call", provider |-> "cheerio", options |-> options,
               visited |-> {}, nodes |-> (<<>> :> QueuedNode(RootUrl, 0)),
               fetched |-> <<>>, asked |-> None, result |-> Failed]

NextPool ==
  \/ CheerioCrawl
  \/ \E path \in DOMAIN walk.nodes, response \in PoolResponses :
        FetchResolves(path, response)

SpecPool == InitPool /\ [][NextPool]_vars

(***************************************************************************)
(* The cheerio crawl of a root that the caller wrote without its path      *)
(***************************************************************************)
InitBare ==
  /\ now = 0
  /\ env = [k \in {"exa", "firecrawl"} |-> TRUE]
  /\ state = [m \in Modules |-> initProviders(env)]
  /\ req = [r \in Slots |-> IdleRequest]
  /\ started = 0
  /\ content = NoContent
  /\ batch = NoBatch
  /\ \E options \in CrawlOptions :
       walk = [pc |-> "call", provider |-> "cheerio", options |-> options,
               visited |-> {}, nodes |-> (<<>> :> QueuedNode(RootUrlBare, 0)),
               fetched |-> <<>>, asked |-> None, result |-> Failed]

NextBare ==
  \/ CheerioCrawl
  \/ \E path \in DOMAIN walk.nodes, response \in FetchResponses :
        FetchResolves(path, response)

SpecBare == InitBare /\ [][NextBare]_vars

(***************************************************************************)
(* Vocabulary of the crawl properties                                      *)
(***************************************************************************)
\* the crawl has returned a result tree
Crawled == walk.pc = "done"
\* the nodes of a result tree
RECURSIVE NodesOf(_)
NodesOf(t) == {t} \cup UNION {NodesOf(t.subpages[i]) : i \in 1..Len(t.subpages)}
\* its parent-child pairs
RECURSIVE EdgesOf(_)
EdgesOf(t) ==
  {<<t, t.subpages[i]>> : i \in 1..Len(t.subpages)}
    \cup UNION {EdgesOf(t.subpages[i]) : i \in 1..Len(t.subpages)}
\* what the root's response offered to follow
Offered == walk.nodes[<<>>].anchors

(***************************************************************************)
(* C15: a crawl with maxSubpages = 0, whatever the provider and maxDepth,  *)
(* returns a root without a subpages field, fetches no page but the root   *)
(* and asks the remote service for no subpages.                            *)
(***************************************************************************)
C15_NoSubpagesAtZero ==
  walk.options.maxSubpages = 0 =>
     /\ walk.asked = None
     /\ Len(walk.fetched) <= 1
     /\ \A i \in 1..Len(walk.fetched) : walk.fetched[i] = RootUrl
     /\ Crawled => (~walk.result.hasSubpages /\ walk.result.subpages = <<>>)

\* Exa returned subpages for the root although none were asked for
C15_Witness ==
  /\ Crawled /\ walk.provider = "exa"
  /\ walk.options.maxSubpages = 0 /\ walk.options.maxDepth = MaxDepth
  /\ Len(Offered) = MaxLinks
  /\ ~walk.result.hasSubpages

(***************************************************************************)
(* C16 (as stated): in every crawl result tree the root has depth 0, each  *)
(* subpage has its parent's depth plus 1, and no node is deeper than       *)
(* maxDepth, for every provider and every maxDepth.                        *)
(***************************************************************************)
C16_Original ==
  Crawled =>
     /\ walk.result.depth = 0
     /\ \A e \in EdgesOf(walk.result) : e[2].depth = e[1].depth + 1
     /\ \A n \in NodesOf(walk.result) : n.depth <= walk.options.maxDepth

(***************************************************************************)
(* C17: in every crawl result tree each node has at most maxSubpages       *)
(* subpages, for every provider; and when the cheerio crawl parses a page  *)
(* below the depth budget, the candidates it chooses are the first         *)
(* maxSubpages links of the page, in document order, that are followable   *)
(* (same host if required), not repeated and not yet visited.              *)
(***************************************************************************)
\* positions of the anchors of node n that count as links not yet visited
C17_Eligible(n, visited) ==
  {i \in 1..Len(n.anchors) :
     /\ n.anchors[i] \notin visited
     /\ walk.options.sameDomainOnly => hostname(n.anchors[i]) = hostname(n.url)
     /\ \A j \in 1..(i - 1) : n.anchors[j] # n.anchors[i]}

C17_Parsed(path) ==
  /\ walk.pc = "crawling" /\ path \in DOMAIN walk.nodes
  /\ walk.nodes[path].pc = "fetching"
  /\ walk'.nodes[path].pc \in {"mapping", "done"}
  /\ walk.nodes[path].depth < walk.options.maxDepth
  /\ walk.options.maxSubpages > 0

C17_Step(path) ==
  LET n == walk'.nodes[path]
      E == C17_Eligible(n, walk.visited)
      k == IF Cardinality(E) < walk.options.maxSubpages
           THEN Cardinality(E) ELSE walk.options.maxSubpages
  IN C17_Parsed(path) =>
       /\ Len(n.candidates) = k
       /\ \A c \in 1..k :
            \E i \in E : /\ Cardinality({j \in E : j < i}) = c - 1
                         /\ n.candidates[c] = n.anchors[i]

C17_AtMostMaxSubpages ==
  /\ [](Crawled => \A n \in NodesOf(walk.result) :
                      Len(n.subpages) <= walk.options.maxSubpages)
  /\ [][\A path \in DOMAIN walk.nodes : C17_Step(path)]_vars

\* the root offered two links and one was taken; its child skipped the link
\* back to the root and took the next one
C17_Witness ==
  /\ Crawled /\ walk.provider = "cheerio" /\ walk.options.maxSubpages = 1
  /\ Len(Offered) = 2 /\ walk.nodes[<<>>].candidates = <<Offered[1]>>
  /\ <<1, 1>> \in DOMAIN walk.nodes
  /\ walk.nodes[<<1>>].anchors[1] = RootUrl
  /\ walk.nodes[<<1>>].candidates = <<walk.nodes[<<1>>].anchors[2]>>
  /\ Len(walk.result.subpages) = 1
  /\ Len(walk.result.subpages[1].subpages) = 1

(***************************************************************************)
(* C18: a node of a crawl result whose children all failed, or that had no *)
(* candidate children, has no subpages field at all: a subpages field that *)
(* is present is never the empty sequence, whichever provider served.      *)
(***************************************************************************)
C18_Original ==
  Crawled => \A n \in NodesOf(walk.result) :
                n.hasSubpages => n.subpages # <<>>

(***************************************************************************)
(* C19: a child page that fails (its fetch or its parsing fails, it was    *)
(* already visited) never fails its parent or the root: a crawl throws     *)
(* only when the root page itself failed, before any child was started;    *)
(* once the root was fetched and normalized the crawl ends with a result,  *)
(* in which the subpages of every node are exactly its children that       *)
(* returned, in the order of the candidates, the failed ones left out.     *)
(***************************************************************************)
\* the result node r is what the crawled node at `path` returned
RECURSIVE C19_Agrees(_, _)
C19_Agrees(r, path) ==
  LET n == walk.nodes[path]
      returned == {i \in 1..Len(n.candidates) : walk.nodes[Append(path, i)].pc = "done"}
  IN /\ n.pc = "done" /\ r.ok /\ r.url = n.url
     /\ Len(r.subpages) = Cardinality(returned)
     /\ \A i \in returned :
          LET j == Cardinality({k \in returned : k <= i})
          IN C19_Agrees(r.subpages[j], Append(path, i))

C19_RootFetched == walk.nodes[<<>>].pc \in {"mapping", "done"}

C19_ChildFailureSwallowed ==
  /\ [](walk.provider = "cheerio" =>
          /\ walk.pc = "threw" => DOMAIN walk.nodes = {<<>>}
          /\ C19_RootFetched => walk.pc \in {"crawling", "done"}
          /\ Crawled => C19_Agrees(walk.result, <<>>))
  /\ []((walk.provider = "firecrawl" /\ Crawled) =>
          /\ Len(walk.result.subpages) <= Len(walk.fetched)
          /\ \A j \in 1..Len(walk.result.subpages) :
                \E i \in j..Len(walk.fetched) :
                   walk.fetched[i] = walk.result.subpages[j].url)
  /\ [][(walk.provider = "cheerio" /\ C19_RootFetched) =>
           /\ walk'.nodes[<<>>].pc \in {"mapping", "done"}
           /\ \A p \in DOMAIN walk.nodes :
                 walk.nodes[p].pc = "done" => walk'.nodes[p] = walk.nodes[p]]_vars

\* the first child of the root failed, the second returned and is the only
\* subpage of the result
C19_Witness ==
  /\ Crawled /\ walk.provider = "cheerio"
  /\ Len(walk.nodes[<<>>].candidates) = 2
  /\ walk.nodes[<<1>>].pc = "null" /\ walk.nodes[<<2>>].pc = "done"
  /\ Len(walk.result.subpages) = 1
  /\ walk.result.subpages[1].url = walk.nodes[<<>>].candidates[2]

(***************************************************************************)
(* C20 as stated: with sameDomainOnly true, every URL in the subpages of   *)
(* a crawl result, at every depth and whichever provider served, has the   *)
(* host of the root URL.                                                   *)
(***************************************************************************)
C20_SubpagesOnRootHost ==
  \A n \in NodesOf(walk.result) : hostname(n.url) = hostname(RootUrl)

C20_Original ==
  (Crawled /\ walk.options.sameDomainOnly) => C20_SubpagesOnRootHost

(***************************************************************************)
(* C20, amended: with sameDomainOnly true, every URL in the subpages of a  *)
(* crawl served by the cheerio provider, at every depth, has the host of   *)
(* the root URL, and no page of another host is ever fetched by it.        *)
(***************************************************************************)
C20_CheerioSameDomain ==
  (walk.provider = "cheerio" /\ walk.options.sameDomainOnly) =>
     /\ \A u \in walk.visited : hostname(u) = hostname(RootUrl)
     /\ \A i \in 1..Len(walk.fetched) : hostname(walk.fetched[i]) = hostname(RootUrl)
     /\ Crawled => C20_SubpagesOnRootHost

\* the root page linked to another host first and to its own host second:
\* only the second link became a subpage
C20_Witness ==
  /\ Crawled /\ walk.provider = "cheerio" /\ walk.options.sameDomainOnly
  /\ Len(Offered) = 2
  /\ hostname(Offered[1]) # hostname(RootUrl)
  /\ hostname(Offered[2]) = hostname(RootUrl) /\ Offered[2] # RootUrl
  /\ Len(walk.result.subpages) = 1
  /\ walk.result.subpages[1].url = Offered[2]

(***************************************************************************)
(* C21: during the cheerio crawl of one root, the number of child page     *)
(* fetches in flight at the same time never exceeds the configured         *)
(* concurrency, crawls two or more levels deep included.                   *)
(***************************************************************************)
C21_ChildFetchesInFlight ==
  {p \in DOMAIN walk.nodes : p # <<>> /\ walk.nodes[p].pc = "fetching"}

C21_Original ==
  walk.provider = "cheerio" =>
     Cardinality(C21_ChildFetchesInFlight) <= walk.options.concurrency

(***************************************************************************)
(* C22: in a cheerio crawl the children of a page are started in the order *)
(* of its candidates, and whatever order their fetches complete in, the    *)
(* subpages of the page list its successful children in the order of the   *)
(* candidates.                                                             *)
(***************************************************************************)
\* position of url u in the sequence s (0 if absent)
C22_IndexOf(s, u) ==
  IF \E i \in 1..Len(s) : s[i] = u THEN CHOOSE i \in 1..Len(s) : s[i] = u ELSE 0

\* the subpages of result node r follow the candidates of the crawled page
C22_InCandidateOrder(r) ==
  \A p \in DOMAIN walk.nodes :
     (walk.nodes[p].pc = "done" /\ walk.nodes[p].url = r.url) =>
        /\ \A j \in 1..Len(r.subpages) :
              C22_IndexOf(walk.nodes[p].candidates, r.subpages[j].url) > 0
        /\ \A j, k \in 1..Len(r.subpages) :
              j < k => C22_IndexOf(walk.nodes[p].candidates, r.subpages[j].url)
                         < C22_IndexOf(walk.nodes[p].candidates, r.subpages[k].url)

C22_StartedInOrder ==
  \A p \in DOMAIN walk.nodes :
     \A i, j \in 1..Len(walk.nodes[p].candidates) :
        (i < j /\ walk.nodes[Append(p, j)].pc # "queued") =>
           /\ walk.nodes[Append(p, i)].pc # "queued"
           /\ (walk.nodes[Append(p, i)].pc # "null"
                 /\ walk.nodes[Append(p, j)].pc # "null") =>
                0 < C22_IndexOf(walk.fetched, walk.nodes[p].candidates[i])
                /\ C22_IndexOf(walk.fetched, walk.nodes[p].candidates[i])
                     < C22_IndexOf(walk.fetched, walk.nodes[p].candidates[j])

C22_CandidateOrder ==
  walk.provider = "cheerio" =>
     /\ C22_StartedInOrder
     /\ Crawled => \A r \in NodesOf(walk.result) : C22_InCandidateOrder(r)

\* both children of the root returned; the second was parsed first (it took
\* a link that the first one also offered and could no longer take), and
\* the subpages still follow the candidates
C22_Witness ==
  /\ Crawled /\ walk.provider = "cheerio"
  /\ Len(walk.nodes[<<>>].candidates) = 2
  /\ <<2, 1>> \in DOMAIN walk.nodes
  /\ walk.nodes[<<2, 1>>].pc = "done"
  /\ C22_IndexOf(walk.nodes[<<1>>].anchors, walk.nodes[<<2, 1>>].url) > 0
  /\ walk.nodes[<<1>>].candidates = <<>>
  /\ Len(walk.result.subpages) = 2
  /\ walk.result.subpages[1].url = walk.nodes[<<>>].candidates[1]
  /\ walk.result.subpages[2].url = walk.nodes[<<>>].candidates[2]

(***************************************************************************)
(* C23: within the cheerio crawl of one root, for every link graph (links  *)
(* back to an ancestor or to the root included) and every interleaving of  *)
(* the sibling fetches, no URL is fetched more than once and no URL occurs *)
(* in more than one node of the result tree.                               *)
(***************************************************************************)
\* the nodes whose page was fetched and returned
C23_Returned == {p \in DOMAIN walk.nodes : walk.nodes[p].pc = "done"}

C23_Original ==
  walk.provider = "cheerio" =>
     /\ \A i, j \in 1..Len(walk.fetched) :
           href(walk.fetched[i]) = href(walk.fetched[j]) => i = j
     /\ Crawled =>
           /\ Cardinality(NodesOf(walk.result)) = Cardinality(C23_Returned)
           /\ \A p, q \in C23_Returned :
                 href(walk.nodes[p].url) = href(walk.nodes[q].url) => p = q

(***************************************************************************)
(* C24: every crawl of one root terminates (returns or raises) provided    *)
(* each network call returns, whatever the link graph; and the pages       *)
(* fetched stay within the budget: none deeper than maxDepth, and at most  *)
(* maxSubpages children attempted per fetched page.                        *)
(***************************************************************************)
C24_Terminated == walk.pc \in {"done", "threw"}

\* the cheerio crawl: every node that got as far as its fetch
C24_CheerioBudget ==
  \A p \in DOMAIN walk.nodes :
     /\ walk.nodes[p].pc \in {"fetching", "mapping", "done"} =>
           walk.nodes[p].depth <= walk.options.maxDepth
     /\ Len(walk.nodes[p].candidates) <= walk.options.maxSubpages

\* the firecrawl crawl: the links fetched below the scraped root
C24_FirecrawlBudget ==
  /\ Len(walk.fetched) > 0 => 1 <= walk.options.maxDepth
  /\ Len(walk.fetched) <= walk.options.maxSubpages

C24_Budget ==
  /\ walk.provider = "cheerio" => C24_CheerioBudget
  /\ walk.provider = "firecrawl" => C24_FirecrawlBudget

C24_Original == <>C24_Terminated /\ []C24_Budget

C24_Termination == <>C24_Terminated

C24_CheerioWithinBudget == walk.provider = "cheerio" => C24_CheerioBudget

(***************************************************************************)
(* Batch operations: scrapeBatch / crawlBatch and the adapters' batches    *)
(***************************************************************************)
MaxBatch == 2         \* most URLs in one batch

BatchOps == {"scrapeBatch", "crawlBatch"}
BatchUrls == {RootUrl, "b1"}

\* the single-URL operation the firecrawl and cheerio batches call per URL
singleOp(op) == IF op = "scrapeBatch" THEN "scrape" ELSE "crawl"

NoBatchResult == [results |-> <<>>, statuses |-> <<>>, hasStatuses |-> FALSE]

\* what Exa answers to getContents(urls): the URLs it could not read, and
\* whether the response carries a statuses array
ExaBatchResponses(urls) ==
  [failed : SUBSET (1..Len(urls)), hasStatuses : BOOLEAN]

\* exaAdapter.scrapeBatch / crawlBatch on a response: results and statuses
\* are the response's own, normalized entry by entry
exaBatchResult(op, urls, response) ==
  LET read == SelectSeq([i \in 1..Len(urls) |-> i], LAMBDA i : i \notin response.failed)
  IN [results |-> [j \in 1..Len(read) |-> urls[read[j]]],
      statuses |-> IF response.hasStatuses
                   THEN [i \in 1..Len(urls) |->
                           [id |-> urls[i],
                            status |-> IF i \in response.failed THEN "error" ELSE "success"]]
                   ELSE <<>>,
      \* normalizeExaStatuses(undefined) is undefined; the crawler has `|| []`
      hasStatuses |-> IF op = "scrapeBatch" THEN response.hasStatuses ELSE TRUE]

\* slip: the loop ends at the first URL that fails
localBatchResultStopsAtFailure(urls, outcomes) ==
  LET bad == {i \in 1..Len(urls) : outcomes[i] # "ok"}
      n == IF bad = {} THEN Len(urls) ELSE (CHOOSE i \in bad : \A j \in bad : i <= j)
  IN [results |-> [j \in 1..(IF bad = {} THEN n ELSE n - 1) |-> urls[j]],
      statuses |-> [i \in 1..n |->
                      [id |-> urls[i],
                       status |-> IF outcomes[i] = "ok" THEN "success" ELSE "error"]],
      hasStatuses |-> TRUE]

\* the loop of the firecrawl and cheerio batches: a result per URL that
\* returned, a status per URL
localBatchResult(urls, outcomes) ==
  LET kept == SelectSeq([i \in 1..Len(urls) |-> i], LAMBDA i : outcomes[i] = "ok")
  IN [results |-> [j \in 1..Len(kept) |-> urls[kept[j]]],
      statuses |-> [i \in 1..Len(urls) |->
                      [id |-> urls[i],
                       status |-> IF outcomes[i] = "ok" THEN "success" ELSE "error"]],
      hasStatuses |-> TRUE]

\* x = [b |-> the batch, s |-> the module's provider state]

\* slip: a batch without a single result is treated as a failure of the
\* provider
batchReturnsUnlessAllFailed(x, out) ==
  IF Len(out.results) = 0 /\ Len(x.b.urls) > 0
  THEN [b |-> [x.b EXCEPT !.pc = "threw", !.error = PlainError(x.b.cur)],
        s |-> recordError(x.s, x.b.cur)]
  ELSE [b |-> [x.b EXCEPT !.pc = "done", !.out = out],
        s |-> IF x.b.recorded THEN recordSuccess(x.s, x.b.cur, now) ELSE x.s]

\* `return result` of the orchestrator (after recordSuccess inside the try)
batchReturns(x, out) ==
  [b |-> [x.b EXCEPT !.pc = "done", !.out = out],
   s |-> IF x.b.recorded THEN recordSuccess(x.s, x.b.cur, now) ELSE x.s]

\* adapter p's batch is called: the loops over no URL return at once, the
\* others reach their first await
adapterBatchStarts(x, p) ==
  IF p # "exa" /\ Len(x.b.urls) = 0
  THEN batchReturns([x EXCEPT !.b.cur = p], localBatchResult(x.b.urls, <<>>))
  ELSE [x EXCEPT !.b.pc = "call", !.b.cur = p,
                 !.b.outcomes = [i \in 1..Len(x.b.urls) |-> "pending"]]

batchThrown(x, err) == [x EXCEPT !.b.pc = "threw", !.b.error = err]

\* the for loop over the alternatives from position i on
batchTryFrom(x, i, firstError) ==
  LET alts == alternatives(x.b.provider)
      j == nextAlternative(x.s, env, alts, i, now)
      s1 == nextAlternativeState(x.s, env, alts, i, now)
  IN IF j = 0 THEN batchThrown([x EXCEPT !.s = s1], firstError)
     ELSE adapterBatchStarts([b |-> [x.b EXCEPT !.altIdx = j, !.error = firstError],
                              s |-> s1], alts[j])

\* the awaited batch of the current adapter rejects: the catch block
batchCatch(x, kind) ==
  LET err == errorOf(kind, x.b.cur)
      rl == [x EXCEPT !.s = recordRateLimit(x.s, x.b.cur, now)]
      re == [x EXCEPT !.s = recordError(x.s, x.b.cur)]
  IN IF ~x.b.recorded THEN batchThrown(x, err)
     ELSE IF x.b.altIdx = 0
     THEN IF kind = "rate"
          THEN IF fallbackEnabled(x.b.fallback) THEN batchTryFrom(rl, 1, err)
               ELSE batchThrown(rl, err)
          ELSE batchThrown(re, err)
     ELSE batchTryFrom(IF kind = "rate" THEN rl ELSE re, x.b.altIdx + 1, x.b.error)

InitBatch ==
  /\ now = 0
  /\ env \in [{"exa", "firecrawl"} -> BOOLEAN]
  /\ state = [m \in Modules |-> initProviders(env)]
  /\ req = [r \in Slots |-> IdleRequest]
  /\ started = 0
  /\ content = NoContent
  /\ walk = NoWalk
  /\ \E op \in BatchOps, prefer \in Providers \cup {NoProvider}, fallback \in BOOLEAN,
        urls \in SeqsUpTo(BatchUrls, MaxBatch), concurrency \in ConcurrencyOptions :
       batch = [pc |-> "enter", op |-> op, prefer |-> prefer, fallback |-> fallback,
                urls |-> urls, concurrency |-> concurrency,
                provider |-> NoProvider, cur |-> NoProvider, altIdx |-> 0,
                recorded |-> TRUE, outcomes |-> <<>>, out |-> NoBatchResult,
                error |-> NoError]

\* scrapeBatch / crawlBatch from its entry to the first await
BatchCall ==
  /\ batch.pc = "enter"
  /\ LET m == moduleOf(batch.op)
         available == getAvailableProvidersInternal(state[m], env, now)
         s1 == getAvailableProvidersInternalState(state[m], env, now)
         provider == selectProvider(s1, available, batch.prefer, batch.fallback, FALSE)
         x == [b |-> [batch EXCEPT !.provider = provider], s |-> s1]
         next ==
           IF provider # NoProvider THEN adapterBatchStarts(x, provider)
           ELSE IF /\ ~adapterAvailable(env, "exa")
                   /\ ~adapterAvailable(env, "firecrawl")
                   /\ ~adapterAvailable(env, "cheerio")
           THEN batchThrown(x, NoProvidersError)
           ELSE IF batch.fallback
           THEN LET p == tryProvider(env, batch.prefer)
                    y == [x EXCEPT !.b.provider = p, !.b.cur = p, !.b.recorded = FALSE]
                IN IF adapterAvailable(env, p) THEN adapterBatchStarts(y, p)
                   ELSE batchThrown(y, PlainError(p))
           ELSE batchThrown(x, ProviderUnavailableError)
     IN /\ batch' = next.b
        /\ state' = [state EXCEPT ![m] = next.s]
  /\ UNCHANGED <<now, env, req, started, content, walk>>

\* client.getContents(urls) resolves
ExaBatchResolves(response) ==
  /\ batch.pc = "call" /\ batch.cur = "exa"
  /\ response \in ExaBatchResponses(batch.urls)
  /\ LET m == moduleOf(batch.op)
         b1 == [batch EXCEPT !.outcomes =
                   [i \in 1..Len(batch.urls) |->
                      IF i \in response.failed THEN "err" ELSE "ok"]]
         next == batchReturns([b |-> b1, s |-> state[m]],
                              exaBatchResult(batch.op, batch.urls, response))
     IN /\ batch' = next.b
        /\ state' = [state EXCEPT ![m] = next.s]
  /\ UNCHANGED <<now, env, req, started, content, walk>>

\* client.getContents(urls) rejects
ExaBatchRejects(kind) ==
  /\ batch.pc = "call" /\ batch.cur = "exa"
  /\ kind \in exaOutcomes(batch.op) \ {"ok"}
  /\ LET m == moduleOf(batch.op)
         next == batchCatch([b |-> batch, s |-> state[m]], kind)
     IN /\ batch' = next.b
        /\ state' = [state EXCEPT ![m] = next.s]
  /\ UNCHANGED <<now, env, req, started, content, walk>>

\* URLs whose call is running: the loops run one at a time, the pMap of
\* cheerioAdapter.crawlBatch up to `concurrency`
running(b) ==
  LET pending == {i \in 1..Len(b.urls) : b.outcomes[i] = "pending"}
      width == IF b.cur = "cheerio" /\ b.op = "crawlBatch" THEN b.concurrency ELSE 1
  IN {i \in pending : Cardinality({j \in pending : j < i}) < width}

\* the scrape / crawl of URL i inside the firecrawl or cheerio batch settles;
\* the try/catch around it turns every rejection into a status
UrlSettles(i, kind) ==
  /\ batch.pc = "call" /\ batch.cur \in {"firecrawl", "cheerio"}
  /\ i \in running(batch)
  /\ kind \in adapterOutcomes(env, singleOp(batch.op), batch.cur)
  /\ LET m == moduleOf(batch.op)
         b1 == [batch EXCEPT !.outcomes[i] = kind]
         next == IF \E j \in 1..Len(b1.urls) : b1.outcomes[j] = "pending"
                 THEN [b |-> b1, s |-> state[m]]
                 ELSE batchReturns([b |-> b1, s |-> state[m]],
                                   localBatchResult(b1.urls, b1.outcomes))
     IN /\ batch' = next.b
        /\ state' = [state EXCEPT ![m] = next.s]
  /\ UNCHANGED <<now, env, req, started, content, walk>>

NextBatch ==
  \/ BatchCall
  \/ \E response \in [failed : SUBSET (1..MaxBatch), hasStatuses : BOOLEAN] :
        ExaBatchResolves(response)
  \/ \E kind \in {"rate", "err"} : ExaBatchRejects(kind)
  \/ \E i \in 1..MaxBatch, kind \in {"ok", "rate", "err"} : UrlSettles(i, kind)

SpecBatch == InitBatch /\ [][NextBatch]_vars

(***************************************************************************)
(* Vocabulary of the batch properties                                      *)
(***************************************************************************)
BatchReturned == batch.pc = "done"
BatchRaised == batch.pc = "threw"

\* the input positions whose status is 'success'
Successes(out) ==
  SelectSeq([i \in 1..Len(out.statuses) |-> i],
            LAMBDA i : out.statuses[i].status = "success")

(***************************************************************************)
(* C25: for every batch operation that returns, whichever provider served, *)
(* statuses has exactly one entry per input URL, in input order, the i-th  *)
(* with id = the i-th URL; results holds exactly the results of the URLs   *)
(* with status 'success', in input order.                                  *)
(***************************************************************************)
C25_Original ==
  BatchReturned =>
     LET out == batch.out
     IN /\ out.hasStatuses
        /\ Len(out.statuses) = Len(batch.urls)
        /\ \A i \in 1..Len(batch.urls) : out.statuses[i].id = batch.urls[i]
        /\ Len(out.results) = Len(Successes(out))
        /\ \A j \in 1..Len(out.results) : out.results[j] = batch.urls[Successes(out)[j]]
        /\ Len(out.results) <= Len(batch.urls)

(***************************************************************************)
(* C26: in a batch operation the failure of one URL never aborts the       *)
(* others: a batch raises only before any URL has an outcome; when it      *)
(* returns every URL was attempted, the results are those of the URLs that *)
(* succeeded, and in the per-URL loops (firecrawl, cheerio) every URL has  *)
(* its status entry, 'error' for the ones that failed; a URL that settles  *)
(* leaves the outcomes of the others as they were.                         *)
(***************************************************************************)
C26_Local == batch.cur \in {"firecrawl", "cheerio"}

C26_Reported ==
  LET out == batch.out
      ok == SelectSeq([i \in 1..Len(batch.urls) |-> i], LAMBDA i : batch.outcomes[i] = "ok")
  IN /\ \A i \in 1..Len(batch.urls) : batch.outcomes[i] # "pending"
     /\ out.results = [j \in 1..Len(ok) |-> batch.urls[ok[j]]]
     /\ C26_Local =>
          /\ Len(out.statuses) = Len(batch.urls)
          /\ \A i \in 1..Len(batch.urls) :
                /\ out.statuses[i].id = batch.urls[i]
                /\ out.statuses[i].status = "error" <=> batch.outcomes[i] # "ok"

C27_Signalled ==
  /\ batch.provider \in {"exa", "firecrawl"}
  /\ \/ batch.error = RateLimitError(batch.provider)
     \/ /\ batch.cur = batch.provider
        /\ \E i \in DOMAIN batch.outcomes : batch.outcomes[i] = "rate"

C27_Original ==
  (C27_Signalled /\ batch.pc \in {"done", "threw"} /\ batch.cur = batch.provider) =>
     /\ BatchRaised
     /\ batch.error = RateLimitError(batch.provider)
     /\ state[moduleOf(batch.op)][batch.provider].isLimited

(***************************************************************************)
(* C28: a batch operation called with an empty URL list returns            *)
(* results = [] and statuses = [] and does not raise, whatever provider is *)
(* selected for it.                                                        *)
(***************************************************************************)
C28_Original ==
  (Len(batch.urls) = 0 /\ batch.provider # NoProvider
     /\ batch.pc \in {"done", "threw"}) =>
       /\ BatchReturned
       /\ batch.out.results = <<>>
       /\ batch.out.hasStatuses /\ batch.out.statuses = <<>>

(***************************************************************************)
(* C29: in every reachable state and for every provider, of either module, *)
(* isLimited = true implies that resetAt is set, after any sequence of     *)
(* recorded successes, rate limits, errors and usability reads.            *)
(***************************************************************************)
C29_LimitedHasReset ==
  \A m \in Modules, p \in Providers :
     state[m][p].isLimited => state[m][p].resetAt # None

\* a provider that succeeded earlier is limited now, while another one has
\* had its expired limit cleared by a read
C29_Witness ==
  \E m \in Modules, p, q \in Providers :
     /\ p # q
     /\ state[m][p].isLimited /\ state[m][p].resetAt # None
     /\ state[m][p].lastSuccess # None
     /\ ~state[m][q].isLimited /\ state[m][q].resetAt = None
     /\ state[m][q].errors > 0

(***************************************************************************)
(* C30: recording a rate limit on provider P sets P.isLimited, sets        *)
(* P.resetAt to the current time plus 60 seconds and adds one to P.errors; *)
(* recording an error on P adds one to P.errors and leaves P.isLimited,    *)
(* P.resetAt and P.lastSuccess as they were; both leave the state of every *)
(* other provider as it was.  Checked on every reachable provider state.   *)
(***************************************************************************)
C30_RecordEffects ==
  \A m \in Modules, p \in Providers :
     LET s == state[m]
         rl == recordRateLimit(s, p, now)
         re == recordError(s, p)
     IN /\ rl[p].isLimited
        /\ rl[p].resetAt = now + 60000
        /\ rl[p].errors = s[p].errors + 1
        /\ re[p].errors = s[p].errors + 1
        /\ re[p].isLimited = s[p].isLimited
        /\ re[p].resetAt = s[p].resetAt
        /\ re[p].lastSuccess = s[p].lastSuccess
        /\ \A q \in Providers \ {p} : rl[q] = s[q] /\ re[q] = s[q]

\* one provider has just been rate-limited and another has a plain error on
\* record, after a success
C30_Witness ==
  \E m \in Modules, p, q \in Providers :
     /\ p # q
     /\ state[m][p].isLimited /\ state[m][p].resetAt = now + 60000
     /\ state[m][p].errors = 1
     /\ state[m][q].errors = 1 /\ ~state[m][q].isLimited
     /\ state[m][q].lastSuccess # None

(***************************************************************************)
(* C31: a usability read of a rate-limited provider at or past resetAt     *)
(* clears isLimited and resetAt and reports it as not rate-limited; before *)
(* resetAt it reports it as rate-limited and leaves the state as it was.   *)
(* Nothing else clears the flag: it stays set, also past resetAt, until    *)
(* such a read or a recorded success.                                      *)
(***************************************************************************)
C31_Read ==
  \A m \in Modules, p \in Providers :
     LET s == state[m]
         after == isRateLimitedState(s, p, now)
     IN s[p].isLimited =>
          /\ now >= s[p].resetAt =>
                /\ ~isRateLimited(s, p, now)
                /\ ~after[p].isLimited /\ after[p].resetAt = None
          /\ now < s[p].resetAt =>
                /\ isRateLimited(s, p, now)
                /\ after = s

C31_Step ==
  /\ now' # now => state' = state
  /\ \A m \in Modules, p \in Providers :
        (state[m][p].isLimited /\ ~state'[m][p].isLimited) =>
           \/ /\ now >= state[m][p].resetAt
              /\ state'[m][p].resetAt = None
              /\ state'[m][p].errors = state[m][p].errors
              /\ state'[m][p].lastSuccess = state[m][p].lastSuccess
           \/ /\ state'[m][p].lastSuccess = now
              /\ state'[m][p].errors = 0

C31_LazyReset == []C31_Read /\ [][C31_Step]_vars

\* the cooldown of a provider has ended and no read has happened yet: the
\* flag is still set
C31_Witness ==
  \E m \in Modules, p \in Providers :
     /\ state[m][p].isLimited
     /\ state[m][p].resetAt # None /\ now >= state[m][p].resetAt
     /\ ~isRateLimited(state[m], p, now)

(***************************************************************************)
(* C32 as stated: provider state (isLimited, resetAt, errors, lastSuccess) *)
(* is changed only by the orchestrator's record-success, record-rate-limit *)
(* and record-error transitions; selection, listing the available          *)
(* providers, the adapters and child page fetches never change it.         *)
(***************************************************************************)
\* provider p of module m gets, in this step, what a request that awaited
\* its adapter records for it
C32_Recorded(m, p) ==
  \E r \in Slots :
     /\ req[r].pc = "call" /\ moduleOf(req[r].op) = m /\ req[r].cur = p
     /\ req'[r].settled # req[r].settled
     /\ state'[m][p] \in {recordSuccess(state[m], p, now)[p],
                          recordRateLimit(state[m], p, now)[p],
                          recordError(state[m], p)[p]}

C32_Original ==
  [][\A m \in Modules, p \in Providers :
        state'[m][p] # state[m][p] => C32_Recorded(m, p)]_vars

(***************************************************************************)
(* C32, amended: provider state is changed only by the three record        *)
(* transitions of the orchestrator and by the usability read, which        *)
(* clears isLimited and resetAt of a provider whose cooldown has ended     *)
(* (selection, listing and the walk over the alternatives perform it);     *)
(* nothing else changes it.                                                *)
(***************************************************************************)
C32_LazilyCleared(m, p) ==
  /\ state[m][p].isLimited /\ now >= state[m][p].resetAt
  /\ state'[m][p] = [state[m][p] EXCEPT !.isLimited = FALSE, !.resetAt = None]

C32_OnlyRecordsAndReads ==
  [][\A m \in Modules, p \in Providers :
        state'[m][p] # state[m][p] =>
           C32_Recorded(m, p) \/ C32_LazilyCleared(m, p)]_vars

\* a success has been recorded for one provider, and the next listing will
\* clear the expired limit of another
C32_Witness ==
  \E m \in Modules, p, q \in Providers :
     /\ p # q /\ KeyPresent(p)
     /\ state[m][p].isLimited /\ now >= state[m][p].resetAt
     /\ state[m][q].lastSuccess # None
     /\ getAvailableProvidersInternalState(state[m], env, now)[p].resetAt = None
     /\ getAvailableProvidersInternalState(state[m], env, now)[q] = state[m][q]

(***************************************************************************)
(* C33: there is one state record per provider for the whole process,      *)
(* shared by scrape, scrapeBatch, crawl and crawlBatch: a rate limit       *)
(* recorded for a provider by any one of these operations makes that       *)
(* provider unusable for every one of them until its cooldown ends.        *)
(***************************************************************************)
C33_Original ==
  \A p \in Providers, op1, op2 \in Ops :
     InCooldown(moduleOf(op1), p) =>
        ~usableNow(state[moduleOf(op2)], env, p, now)

(***************************************************************************)
(* C34: selectProvider returns either none or a provider that is usable    *)
(* (key present, not in cooldown) at that moment; and whenever the usable  *)
(* set is not empty and no earlier rule returns, the fixed order cheerio,  *)
(* exa, firecrawl yields a match, so the sort by most recent success and   *)
(* fewest errors is never reached.                                         *)
(***************************************************************************)
\* selectProvider falls through every return before the sort
C34_SortReached(available, prefer, fallback, html) ==
  /\ Len(available) # 0
  /\ ~(html /\ prefer = NoProvider /\ includes(available, "firecrawl"))
  /\ ~(prefer # NoProvider /\ includes(available, prefer))
  /\ ~(prefer # NoProvider /\ ~fallback)
  /\ firstInPriority(available) = NoProvider

C34_SelectsUsable ==
  \A m \in Modules, prefer \in Providers \cup {NoProvider},
     fallback \in BOOLEAN, html \in BOOLEAN :
     LET available == getAvailableProvidersInternal(state[m], env, now)
         s1 == getAvailableProvidersInternalState(state[m], env, now)
         selected == selectProvider(s1, available, prefer, fallback, html)
     IN /\ selected # NoProvider => UsableAt(m, selected)
        /\ ~C34_SortReached(available, prefer, fallback, html)
        /\ (Len(available) # 0 /\ prefer = NoProvider /\ ~html) =>
              \E i \in 1..3 :
                 /\ selected = FixedPriority[i] /\ UsableAt(m, selected)
                 /\ \A j \in 1..(i - 1) : ~UsableAt(m, FixedPriority[j])

\* the sort would put firecrawl (recent success) first, the fixed order
\* returns cheerio, while exa is in cooldown
C34_Witness ==
  \E m \in Modules :
     LET available == getAvailableProvidersInternal(state[m], env, now)
     IN /\ InCooldown(m, "exa")
        /\ state[m]["firecrawl"].lastSuccess # None
        /\ state[m]["cheerio"].lastSuccess = None
        /\ sortedFirst(state[m], available) = "firecrawl"
        /\ selectProvider(state[m], available, NoProvider, TRUE, FALSE) = "cheerio"

(***************************************************************************)
(* cheerioAdapter.crawlBatch seen from inside: one crawl per root URL      *)
(***************************************************************************)
\* the pages the roots link to, and the batches crawled: two roots
RootsSite == {RootUrl, "a1", "b1"}

RootsUrls == {<<RootUrl, u>> : u \in RootsSite}

RootsResponses ==
  [ok : BOOLEAN, readable : {TRUE}, anchors : SeqsUpTo(RootsSite, MaxLinks)]

RootsOptions ==
  {[DEFAULT_OPTIONS EXCEPT !.maxSubpages = ms, !.maxDepth = md,
                           !.concurrency = cc, !.sameDomainOnly = sd] :
     ms \in 1..MaxSubpages, md \in {1}, cc \in ConcurrencyOptions, sd \in BOOLEAN}

\* slip: the visited set is one set of the module, shared by every crawl
crawlOfShared(rs, i) ==
  [rs[i] EXCEPT !.visited = UNION {rs[j].visited : j \in DOMAIN rs}]

\* the call crawl(urls[i], options): its visitedUrls is created by the call
crawlOf(rs, i) == rs[i]

\* the pMap over the roots starts the queued ones in order while fewer than
\* `concurrency` are running
RECURSIVE rootsPMapNext(_, _)
rootsPMapNext(rs, concurrency) ==
  LET queued == {i \in DOMAIN rs : rs[i].pc = "call"}
      active == {i \in DOMAIN rs : rs[i].pc = "crawling"}
  IN IF queued = {} \/ Cardinality(active) >= concurrency THEN rs
     ELSE LET i == CHOOSE k \in queued : \A j \in queued : k <= j
          IN rootsPMapNext(
               [rs EXCEPT ![i] = Finished([crawlRecursiveEnter(crawlOf(rs, i), <<>>)
                                             EXCEPT !.pc = "crawling"])],
               concurrency)

\* results and statuses once every mapper has settled
rootsBatchResult(rs) ==
  LET kept == SelectSeq([i \in 1..Len(rs) |-> i], LAMBDA i : rs[i].pc = "done")
  IN [results |-> [j \in 1..Len(kept) |-> rs[kept[j]].result],
      statuses |-> [i \in 1..Len(rs) |->
                      [id |-> rs[i].nodes[<<>>].url,
                       status |-> IF rs[i].pc = "done" THEN "success" ELSE "error"]],
      hasStatuses |-> TRUE]

rootsSettled(b, rs) ==
  IF \A i \in DOMAIN rs : rs[i].pc \in {"done", "threw"}
  THEN [b EXCEPT !.pc = "roots-done", !.roots = rs, !.out = rootsBatchResult(rs)]
  ELSE [b EXCEPT !.pc = "roots-running", !.roots = rs]

InitRoots ==
  /\ now = 0
  /\ env = [k \in {"exa", "firecrawl"} |-> TRUE]
  /\ state = [m \in Modules |-> initProviders(env)]
  /\ req = [r \in Slots |-> IdleRequest]
  /\ started = 0
  /\ content = NoContent
  /\ walk = NoWalk
  /\ \E urls \in RootsUrls, options \in RootsOptions :
       batch = [pc |-> "roots-call", options |-> options, out |-> NoBatchResult,
                roots |-> [i \in 1..Len(urls) |->
                  [pc |-> "call", provider |-> "cheerio", options |-> options,
                   visited |-> {}, nodes |-> (<<>> :> QueuedNode(urls[i], 0)),
                   fetched |-> <<>>, asked |-> None, result |-> Failed]]]

\* cheerioAdapter.crawlBatch up to its await
CheerioCrawlBatch ==
  /\ batch.pc = "roots-call"
  /\ batch' = rootsSettled(batch, rootsPMapNext(batch.roots, batch.options.concurrency))
  /\ UNCHANGED <<now, env, state, req, started, content, walk>>

\* a fetch of the crawl of root i resolves
RootFetchResolves(i, path, response) ==
  /\ batch.pc = "roots-running"
  /\ i \in DOMAIN batch.roots
  /\ batch.roots[i].pc = "crawling"
  /\ path \in DOMAIN batch.roots[i].nodes
  /\ batch.roots[i].nodes[path].pc = "fetching"
  /\ LET w == Finished(crawlRecursiveFetched(crawlOf(batch.roots, i), path, response))
         rs == rootsPMapNext([batch.roots EXCEPT ![i] = w], batch.options.concurrency)
     IN batch' = rootsSettled(batch, rs)
  /\ UNCHANGED <<now, env, state, req, started, content, walk>>

RootPaths == {<<>>} \cup {<<i>> : i \in 1..MaxSubpages}

NextRoots ==
  \/ CheerioCrawlBatch
  \/ \E i \in 1..2, path \in RootPaths, response \in RootsResponses :
        RootFetchResolves(i, path, response)

SpecRoots == InitRoots /\ [][NextRoots]_vars

(***************************************************************************)
(* C35: the roots of a local batch crawl do not interfere                  *)
(***************************************************************************)
C35_Started(r) == Finished([crawlRecursiveEnter(r, <<>>) EXCEPT !.pc = "crawling"])

C35_OwnStep(r, r2) ==
  \/ r2 = r
  \/ r.pc = "call" /\ r2 = C35_Started(r)
  \/ /\ r.pc = "crawling"
     /\ \E path \in DOMAIN r.nodes, response \in RootsResponses :
          /\ r.nodes[path].pc = "fetching"
          /\ r2 = Finished(crawlRecursiveFetched(r, path, response))

C35_OwnVisited(r) ==
  r.visited \subseteq {r.nodes[path].url : path \in DOMAIN r.nodes}

C35_Step ==
  \A j \in DOMAIN batch.roots :
    /\ C35_OwnStep(batch.roots[j], batch'.roots[j])
    /\ batch.roots[j].pc = "done" => batch'.roots[j].result = batch.roots[j].result

\* C35: in a batch crawl served by the local adapter every step changes a
\* root's crawl (its visited set, its candidates, its result tree) exactly as
\* that root's own crawl would change it alone, whatever the other roots have
\* visited or failed on, and a root's visited set holds only URLs of its own
\* tree, under every interleaving of the roots.
C35_RootsIndependent == [](\A j \in DOMAIN batch.roots : C35_OwnVisited(batch.roots[j]))
                        /\ [][C35_Step]_vars

\* both roots finished, one of them failed or visited a URL the other one
\* has in its tree as well
C35_Witness ==
  /\ batch.pc = "roots-done"
  /\ batch.roots[1].nodes[<<>>].url # batch.roots[2].nodes[<<>>].url
  /\ batch.roots[1].pc = "done" /\ batch.roots[2].pc = "done"
  /\ batch.roots[2].nodes[<<>>].url \in batch.roots[1].visited
  /\ \E p1 \in DOMAIN batch.roots[1].nodes, p2 \in DOMAIN batch.roots[2].nodes :
       /\ p1 # <<>> /\ p2 # <<>>
       /\ batch.roots[1].nodes[p1].url = batch.roots[2].nodes[p2].url
       /\ batch.roots[1].nodes[p1].pc = "done" /\ batch.roots[2].nodes[p2].pc = "done"

(***************************************************************************)
(* C36: when a URL enters the visited set                                  *)
(***************************************************************************)
C36_Normalized(u) ==
  \E path \in DOMAIN walk.nodes :
    walk.nodes[path].url = u /\ walk.nodes[path].pc \in {"mapping", "done"}

\* C36: in the crawl engine a URL is in the visited set only after it has been
\* fetched and normalized into a result (order: fetch, normalize, mark
\* visited).
C36_Original ==
  (walk.pc \in {"crawling", "done", "threw"} /\ walk.provider = "cheerio")
    => \A u \in walk.visited : C36_Normalized(u)

\* what the code does instead: a URL is visited from the moment its fetch
\* starts, and stays visited when the fetch fails
C36_VisitedBeforeFetch ==
  (walk.pc \in {"crawling", "done", "threw"} /\ walk.provider = "cheerio")
    => \A path \in DOMAIN walk.nodes :
         walk.nodes[path].pc \in {"fetching", "mapping", "done"}
           => walk.nodes[path].url \in walk.visited

(***************************************************************************)
(* C37: adapters and providers in cooldown                                 *)
(***************************************************************************)
\* request r invokes the adapter of provider p in this step
C37_Invokes(r, p) ==
  /\ Len(req'[r].calls) > 0
  /\ req'[r].calls # req[r].calls
  /\ req'[r].pc = "call"
  /\ p = req'[r].calls[Len(req'[r].calls)]

C37_InCooldownAfter(m, p) ==
  state'[m][p].isLimited /\ now' < state'[m][p].resetAt

C37_Step ==
  \A r \in Slots, p \in Providers :
    C37_Invokes(r, p) => ~C37_InCooldownAfter(moduleOf(req'[r].op), p)

\* C37: no adapter is invoked for a provider that is marked rate-limited and
\* whose resetAt has not elapsed at the moment of the invocation, whatever
\* other requests are in flight and whenever they recorded the rate limit.
C37_NoCallInCooldown == [][C37_Step]_vars

\* a request invoked an alternate while the provider it came from was in
\* cooldown, and another request is in flight at the same time
C37_Witness ==
  \E r, r2 \in Slots, p \in Providers :
    /\ r # r2
    /\ req[r].pc = "call" /\ req[r2].pc = "call"
    /\ moduleOf(req[r].op) = moduleOf(req[r2].op)
    /\ InCooldown(moduleOf(req[r].op), p)
    /\ req[r].altIdx > 0
    /\ req[r].cur # p /\ req[r2].cur = p

(***************************************************************************)
(* C38: record-success and the error count                                 *)
(***************************************************************************)
\* request r settles with `kind` in this step and the orchestrator records it
\* for provider p of module m
C38_Records(r, kind, m, p) ==
  /\ Settles(r, kind)
  /\ req[r].recorded
  /\ req[r].cur = p
  /\ moduleOf(req[r].op) = m

C38_Effect ==
  \A m \in Modules, p \in Providers :
     LET s == state[m]
         ok == recordSuccess(s, p, now)
     IN /\ ok[p].lastSuccess = now
        /\ ~ok[p].isLimited
        /\ ok[p].errors = 0
        /\ ok[p].resetAt = s[p].resetAt
        /\ s[p].errors >= 0

C38_Step ==
  \A m \in Modules, p \in Providers :
     LET failures == {r \in Slots : C38_Records(r, "rate", m, p) \/ C38_Records(r, "err", m, p)}
     IN state'[m][p].errors =
          IF \E r \in Slots : C38_Records(r, "ok", m, p) THEN 0
          ELSE state[m][p].errors + Cardinality(failures)

\* C38: record-success on provider P stamps P.lastSuccess with the current
\* time, clears P.isLimited, resets P.errors to 0 and leaves P.resetAt as it
\* was; P.errors is never negative, starts at 0, grows by one with every
\* failure recorded for P, returns to 0 with every success recorded for P and
\* is changed by nothing else, so it counts the failures recorded for P since
\* P's last recorded success.
C38_ErrorsSinceSuccess == [](C38_Effect) /\ [][C38_Step]_vars

\* a success was recorded for a provider in cooldown: flag and count are
\* cleared, resetAt is still there
C38_Witness ==
  \E m \in Modules, p \in Providers :
     /\ state[m][p].lastSuccess = now
     /\ ~state[m][p].isLimited
     /\ state[m][p].errors = 0
     /\ state[m][p].resetAt # None /\ now < state[m][p].resetAt

(***************************************************************************)
(* C39: per-URL failures inside a firecrawl or cheerio batch               *)
(***************************************************************************)
C39_Local == batch.cur \in {"firecrawl", "cheerio"}

\* a URL of the batch of a local-loop adapter settles in this step
C39_UrlSettles ==
  /\ batch.pc = "call" /\ C39_Local
  /\ batch' # batch

C39_Step ==
  C39_UrlSettles =>
    LET m == moduleOf(batch.op)
    IN /\ batch'.pc \in {"call", "done"}
       /\ batch'.cur = batch.cur /\ batch'.altIdx = batch.altIdx
       /\ batch'.pc = "call" => state' = state
       /\ batch'.pc = "done" =>
            /\ batch.recorded
            /\ state'[m] = recordSuccess(state[m], batch.cur, now)
            /\ ~state'[m][batch.cur].isLimited
            /\ state'[m][batch.cur].errors = 0
            /\ state'[m][batch.cur].lastSuccess = now

\* C39: a batch handled by the cheerio or the firecrawl adapter never raises,
\* whatever its URLs did (rate-limit failures included): every URL that
\* settles leaves the batch running on the same provider or makes it return,
\* the return records success for that provider (flag cleared, error count
\* 0, lastSuccess stamped), and no alternate is tried.
C39_LocalBatchNeverRaises ==
  [](BatchRaised => ~C39_Local) /\ [][C39_Step]_vars

\* a firecrawl batch returned although every URL failed, one of them with a
\* rate limit; success is on record for firecrawl
C39_Witness ==
  /\ BatchReturned /\ batch.cur = "firecrawl"
  /\ Len(batch.urls) > 0
  /\ \A i \in 1..Len(batch.urls) : batch.outcomes[i] \in {"rate", "err"}
  /\ \E i \in 1..Len(batch.urls) : batch.outcomes[i] = "rate"
  /\ Len(batch.out.results) = 0
  /\ state[moduleOf(batch.op)]["firecrawl"].lastSuccess = now
  /\ ~state[moduleOf(batch.op)]["firecrawl"].isLimited

(***************************************************************************)
(* The cheerio crawl of a site whose pages hold more links than the budget *)
(***************************************************************************)
\* the link lists found on the pages of the site
SiteLinks ==
  {<<>>, <<"a2">>, <<"a2", RootUrl>>, <<"a1", "b1">>, <<"a1", "a2", "b1">>,
   <<"b1", "a2", "a1">>}

SiteResponses == [ok : BOOLEAN, readable : {TRUE}, anchors : SiteLinks]

InitSite ==
  /\ now = 0
  /\ env = [k \in {"exa", "firecrawl"} |-> TRUE]
  /\ state = [m \in Modules |-> initProviders(env)]
  /\ req = [r \in Slots |-> IdleRequest]
  /\ started = 0
  /\ content = NoContent
  /\ batch = NoBatch
  /\ \E options \in PoolOptions :
       walk = [pc |-> "call", provider |-> "cheerio", options |-> options,
               visited |-> {}, nodes |-> (<<>> :> QueuedNode(RootUrl, 0)),
               fetched |-> <<>>, asked |-> None, result |-> Failed]

NextSite ==
  \/ CheerioCrawl
  \/ \E path \in DOMAIN walk.nodes, response \in SiteResponses :
        FetchResolves(path, response)

SpecSite == InitSite /\ [][NextSite]_vars

(***************************************************************************)
(* C40: candidates are fixed at parse time and never replaced              *)
(***************************************************************************)
\* where the call for the node at `path` stands ("queued" before it exists)
C40_PcBefore(path) ==
  IF path \in DOMAIN walk.nodes THEN walk.nodes[path].pc ELSE "queued"

\* the children of every parsed page are its candidates, position by position
C40_ChildrenAreCandidates ==
  \A path \in DOMAIN walk.nodes :
     LET n == walk.nodes[path]
     IN /\ \A i \in 1..Len(n.candidates) :
             /\ Append(path, i) \in DOMAIN walk.nodes
             /\ walk.nodes[Append(path, i)].url = n.candidates[i]
        /\ \A i \in 1..(MaxSubpages + 1) :
             i > Len(n.candidates) => Append(path, i) \notin DOMAIN walk.nodes

C40_Step ==
  /\ \A path \in DOMAIN walk.nodes :
        \* fixed once
        /\ walk.nodes[path].mapped =>
             walk'.nodes[path].candidates = walk.nodes[path].candidates
        \* from the links unvisited when the page was parsed
        /\ (walk.nodes[path].pc = "fetching" /\ walk'.nodes[path].mapped) =>
             \A i \in 1..Len(walk'.nodes[path].candidates) :
                walk'.nodes[path].candidates[i] \notin walk.visited
  /\ \A path \in DOMAIN walk'.nodes :
        \* a candidate is fetched only if nobody visited it before its turn
        /\ (C40_PcBefore(path) = "queued" /\ walk'.nodes[path].pc = "fetching") =>
             walk'.nodes[path].url \notin walk.visited
        \* and is dropped if somebody did
        /\ (C40_PcBefore(path) = "queued" /\ walk'.nodes[path].url \in walk.visited) =>
             walk'.nodes[path].pc \in {"queued", "null"}

\* C40: in a cheerio crawl the candidates of a page are fixed when the page is
\* parsed, from the links unvisited at that moment, and never change; the
\* children of the page are exactly these candidates; a candidate that is
\* already visited when its turn comes is dropped and nothing takes its
\* place.
C40_CandidatesFixed == [](walk.pc \in {"crawling", "done", "threw"} => C40_ChildrenAreCandidates)
                       /\ [][C40_Step]_vars

\* the root has three links and a budget of two: its second candidate was
\* visited first by the child of the first, so the root ends with one
\* subpage although its third link was never visited, and the second
\* candidate appears only at depth 2
C40_Witness ==
  /\ Crawled
  /\ walk.options.maxSubpages = 2
  /\ Len(walk.nodes[<<>>].anchors) = 3
  /\ Len(walk.nodes[<<>>].candidates) = 2
  /\ Len(walk.result.subpages) = 1
  /\ walk.nodes[<<>>].anchors[3] \notin walk.visited
  /\ walk.nodes[<<2>>].pc = "null"
  /\ <<1, 1>> \in DOMAIN walk.nodes
  /\ walk.nodes[<<1, 1>>].url = walk.nodes[<<>>].candidates[2]
  /\ walk.nodes[<<1, 1>>].pc = "done"
  /\ Len(walk.result.subpages[1].subpages) = 1

=============================================================================
